---- MODULE Spec2Model ----
(***************************************************************************)
(* A model of the per-source-IPv4 token-bucket rate limiter:               *)
(*   - the TC ingress program tc_ingress (rateLimiter.bpf.c part of        *)
(*     src/rateLimitter/common_um.h, lines 22-179),                        *)
(*   - the hash map rate_map and the ring buffer rb it uses,               *)
(*   - the user-space consumer handle_event (lines 305-334),               *)
(*   - tc_ingress running on several CPUs at once, one shared-memory       *)
(*     access per step (SpecSMP).                                          *)
(*                                                                         *)
(* Integer widths are scaled down so that TLC can enumerate them: a __u32  *)
(* is an integer modulo 2^U32Bits, a __u64 an integer modulo 2^U64Bits,    *)
(* and one second is NSEC_PER_SEC clock units instead of 10^9.  Every      *)
(* conversion and every wrap-around of the C code is kept.                 *)
(***************************************************************************)
EXTENDS Integers, Sequences, FiniteSets, TLC

\* ------------------------------------------------------------------ bounds
\* Width of a __u32 in bits; a __u64 is twice as wide.
U32Bits == 2
\* Clock units per second (1000000000 in the program).
NSEC_PER_SEC == 2
\* Number of distinct source addresses that send frames.
NumIPs == 2
\* max_entries of rate_map (16384 in the program).
MaxEntries == 2
\* Sources beyond NumIPs that send frames once rate_map is full.
NumExtra == 1
\* Last clock value of the runs that carry more sources or more history.
MaxTimeShort == 1
\* Records the ring buffer holds (256 KiB of records in the program).
RbRecords == 2
\* Largest rate_limit_pps and burst written to .rodata.
MaxRate == 2
MaxBurst == 2
\* Last clock value and largest clock step of the runs explored.
MaxTime == 3
MaxTick == 2
\* Invocations in the runs that keep the printed lines.
MaxPkts == 6
\* Processing contexts (CPUs) that run tc_ingress at the same time, and the
\* invocations of a concurrent run.
NumCPUs == 2
MaxPktsSMP == 4
\* Frames that arrive during one run of the loader.
\* The longest argument given to --rate and --burst, in characters.
MaxArgLen == 2

MaxPktsMain == 4

U32 == 2^U32Bits
U64 == 2^(2 * U32Bits)

\* ------------------------------------------------------- program constants
TC_ACT_OK == 0
TC_ACT_SHOT == 2
ETH_P_IP == 2048
ETH_HLEN == 14
IP_HLEN == 20

\* A verdict that no invocation has returned yet.
NoRet == 0 - 1

\* ---------------------------------------------------------------- helpers
\* C conversions to the unsigned types (two's complement wrap).
ToU32(i) == i % U32
ToU64(i) == i % U64

Min(a, b) == IF a < b THEN a ELSE b

\* bpf_htons on a little-endian host: swap the two bytes of a 16-bit value.
bpf_htons(x) == (x % 256) * 256 + (x \div 256)

\* An IPv4 address a.b.c.d as the __u32 a little-endian host loads from the
\* packet's bytes (network byte order kept, as l3->saddr).
Addr(a, b, c, d) == a + 256 * b + 65536 * c + 16777216 * d

\* inet_ntop(AF_INET): the four bytes of the __u32 in memory order.
inet_ntop(x) ==
    << x % 256, (x \div 256) % 256, (x \div 65536) % 256, x \div 16777216 >>

IPs == { Addr(10, 0, 0, i) : i \in 1..NumIPs }

\* Every key rate_map is ever asked for.
AllIPs == { Addr(10, 0, 0, i) : i \in 1..(NumIPs + NumExtra) }

\* ctx->protocol values seen on the wire: IPv4 and IPv6 (network order).
Protocols == { bpf_htons(ETH_P_IP), bpf_htons(34525) }

\* data_end - data: a frame cut inside the Ethernet header, one cut inside the
\* IPv4 header, and one holding both headers.
FrameLens == { ETH_HLEN - 1, ETH_HLEN + IP_HLEN - 1, ETH_HLEN + IP_HLEN }

Packets == [ protocol : Protocols, len : FrameLens, saddr : IPs ]

\* No frame yet.
NoFrame == [ protocol |-> 0, len |-> 0, saddr |-> 0 ]

\* IPv4 frames with both headers present.
GoodPacket(ip) ==
    [ protocol |-> bpf_htons(ETH_P_IP), len |-> ETH_HLEN + IP_HLEN, saddr |-> ip ]

\* ------------------------------------------------------------------ state
VARIABLES
    rate_limit_pps,   \* .rodata: packets per second allowed per source
    burst,            \* .rodata: token bucket size
    ktime,            \* the clock bpf_ktime_get_ns() reads
    rate_map,         \* BPF_MAP_TYPE_HASH: source IP -> struct rate_state
    rb,               \* BPF_MAP_TYPE_RINGBUF: records, oldest first
    ret,              \* return value of the last tc_ingress invocation
    printed,          \* lines handle_event wrote to stdout
    npkts,            \* history: invocations counted so far (bounded runs)
    solo,             \* history: per source, its bucket had it been alone
    solo_ret,         \* history: the last verdict, had the source been alone
    verdicts,         \* history: source, clock and verdict of each counted run
    submitted,        \* history: the records passed to bpf_ringbuf_submit
    reserved,         \* history: the records in the order they were reserved
    frame,            \* history: the frame of the last traced invocation
    cpu,              \* per CPU: the invocation of tc_ingress it is running
    env,              \* main: the parsed arguments (rate, burst, ifname)
    pc,               \* main: the statement it executes next
    err,              \* main: its local err
    exiting,          \* the flag handle_signal sets
    skel,             \* the BPF skeleton: "none", "open", "loaded", "destroyed"
    rb_consumer,      \* main: whether ring_buffer__new returned a consumer
    clsact,           \* whether the interface has a clsact qdisc
    tc_filters,       \* per interface: the attachments on its ingress path
    stderr,           \* the lines written to stderr
    exit_status       \* the exit status of the process, once it has exited

\* The state of the loader process and of the interfaces.
uvars == << env, pc, err, exiting, skel, rb_consumer, clsact, tc_filters,
            stderr, exit_status >>

\* The state of the loaded program, with the history variables.
kvars == << rate_limit_pps, burst, ktime, rate_map, rb, ret, printed, npkts,
            solo, solo_ret, verdicts, submitted, reserved, frame, cpu >>

vars == << kvars, uvars >>

\* A NULL pointer / an absent map entry.
NULL == [ null |-> TRUE ]

\* struct rate_state
rate_state(ts, tok, drp) == [ last_ts_ns |-> ts, tokens |-> tok, dropped |-> drp ]

\* struct event, as it lies in the ring buffer; busy until it is submitted.
event(ip, ts, drp, b) == [ src_ip |-> ip, ts_ns |-> ts, dropped |-> drp, busy |-> b ]

\* -------------------------------------------------------------- rate_map
Entries(map) == { k \in DOMAIN map : map[k] # NULL }

\* Faulty variant: one bucket shared by all sources (the key is ignored).
bpf_map_lookup_elem_Shared(map, key) ==
    IF Entries(map) = {} THEN NULL ELSE map[CHOOSE k \in Entries(map) : TRUE]

bpf_map_lookup_elem(map, key) == map[key]

\* Faulty variant: a full map makes room for a new key by evicting another
\* one (the behaviour of an LRU hash).
bpf_map_update_elem_Evict(map, key, value) ==
    IF map[key] # NULL \/ Cardinality(Entries(map)) < MaxEntries
    THEN [ map EXCEPT ![key] = value ]
    ELSE LET victim == CHOOSE k \in Entries(map) : TRUE IN
         [ map EXCEPT ![victim] = NULL, ![key] = value ]

\* Faulty variant: max_entries is not enforced.
bpf_map_update_elem_NoLimit(map, key, value) == [ map EXCEPT ![key] = value ]

\* BPF_ANY: create or overwrite; a new key is refused (-E2BIG) once the map
\* holds max_entries keys.
bpf_map_update_elem(map, key, value) ==
    IF map[key] # NULL \/ Cardinality(Entries(map)) < MaxEntries
    THEN [ map EXCEPT ![key] = value ]
    ELSE map

\* ------------------------------------------------------------ ring buffer
\* bpf_ringbuf_reserve: TRUE when there is room for one more record.
bpf_ringbuf_reserve(ring) == Len(ring) < RbRecords

\* ------------------------------------------------------------- tc_ingress
\* __u64 elapsed = now_ns - st->last_ts_ns;
Elapsed(now_ns, st) == ToU64(now_ns - st.last_ts_ns)

\* Faulty variant: the quotient is rounded up, a started token is granted.
TokensToAdd_RoundUp(elapsed, rate) ==
    (ToU64(elapsed * ToU64(rate)) + NSEC_PER_SEC - 1) \div NSEC_PER_SEC

\* __u64 add = (elapsed * (__u64)rate_limit_pps) / 1000000000ULL;
TokensToAdd(elapsed, rate) == ToU64(elapsed * ToU64(rate)) \div NSEC_PER_SEC

\* Faulty variant: the cap to burst is missing.
CapTokens_NoCap(tokens, b) == ToU32(tokens)

\* tokens = st->tokens + add, capped to burst, stored as __u32.
CapTokens(tokens, b) == ToU32(IF tokens > ToU64(b) THEN ToU64(b) ELSE tokens)

\* Faulty variant: the timestamp is advanced on every frame, also on one
\* that earns no token.
Refill_AlwaysStamp(st, now_ns, rate, b) ==
    LET elapsed == Elapsed(now_ns, st) IN
    IF rate > 0 /\ elapsed > 0
    THEN LET add == TokensToAdd(elapsed, rate) IN
         IF add > 0
         THEN rate_state(now_ns, CapTokens(ToU64(st.tokens + add), b), st.dropped)
         ELSE [ st EXCEPT !.last_ts_ns = now_ns ]
    ELSE st

\* Faulty variant: a refill writes a whole fresh struct, clearing dropped.
Refill_ResetDropped(st, now_ns, rate, b) ==
    LET elapsed == Elapsed(now_ns, st) IN
    IF rate > 0 /\ elapsed > 0
    THEN LET add == TokensToAdd(elapsed, rate) IN
         IF add > 0
         THEN rate_state(now_ns, CapTokens(ToU64(st.tokens + add), b), 0)
         ELSE st
    ELSE st

\* Lines 137-156: the refill step on the entry st.
Refill(st, now_ns, rate, b) ==
    LET elapsed == Elapsed(now_ns, st) IN
    IF rate > 0 /\ elapsed > 0
    THEN LET add == TokensToAdd(elapsed, rate) IN
         IF add > 0
         THEN rate_state(now_ns, CapTokens(ToU64(st.tokens + add), b), st.dropped)
         ELSE st
    ELSE st

\* Faulty variant: the first packet does not consume a token.
NewState_FullBucket(now_ns, b) ==
    rate_state(now_ns, IF b > 0 THEN ToU32(b) ELSE 0, 0)

\* Lines 126-131: the state of a first-seen source.
NewState(now_ns, b) ==
    rate_state(now_ns, IF b > 0 THEN ToU32(b - 1) ELSE 0, 0)

\* Faulty variant: a dropped frame is counted twice.
IncDropped_Twice(st) == [ st EXCEPT !.dropped = ToU32(@ + 2) ]

\* st->dropped++
IncDropped(st) == [ st EXCEPT !.dropped = ToU32(@ + 1) ]

\* Faulty variant: the event carries the count read before the increment.
EmitEvent_StaleCount(ring, src_ip, now_ns, st) ==
    IF bpf_ringbuf_reserve(ring)
    THEN << event(src_ip, now_ns, ToU32(st.dropped - 1), FALSE) >>
    ELSE << >>

\* Lines 168-175: reserve, fill and submit one event; nothing when the
\* reservation fails.  The records submitted, in order.
EmitEvent(ring, src_ip, now_ns, st) ==
    IF bpf_ringbuf_reserve(ring)
    THEN << event(src_ip, now_ns, st.dropped, FALSE) >>
    ELSE << >>

\* What one invocation returns and leaves behind: the verdict, the map, the
\* ring buffer, and the records it submitted.
Result(r, map, ring, sub) ==
    [ ret |-> r, map |-> map, rb |-> ring \o sub, sub |-> sub ]

\* Faulty variant: an admitted packet does not consume its token.
Decide_NoDecrement(map, ring, src_ip, now_ns, st) ==
    IF st.tokens > 0
    THEN Result(TC_ACT_OK, [ map EXCEPT ![src_ip] = st ], ring, << >>)
    ELSE LET st2 == IncDropped(st) IN
         Result(TC_ACT_SHOT,
                [ map EXCEPT ![src_ip] = st2 ],
                ring,
                EmitEvent(ring, src_ip, now_ns, st2))

\* Faulty variant: a failed reservation lets the packet through uncounted.
Decide_FailOpenOnFullRing(map, ring, src_ip, now_ns, st) ==
    IF st.tokens > 0
    THEN Result(TC_ACT_OK,
                [ map EXCEPT ![src_ip] = [ st EXCEPT !.tokens = ToU32(@ - 1) ] ],
                ring, << >>)
    ELSE IF bpf_ringbuf_reserve(ring)
    THEN LET st2 == IncDropped(st) IN
         Result(TC_ACT_SHOT,
                [ map EXCEPT ![src_ip] = st2 ],
                ring,
                EmitEvent(ring, src_ip, now_ns, st2))
    ELSE Result(TC_ACT_OK, [ map EXCEPT ![src_ip] = st ], ring, << >>)

\* Lines 158-178: the decision on the refilled entry st.
Decide(map, ring, src_ip, now_ns, st) ==
    IF st.tokens > 0
    THEN Result(TC_ACT_OK,
                [ map EXCEPT ![src_ip] = [ st EXCEPT !.tokens = ToU32(@ - 1) ] ],
                ring, << >>)
    ELSE LET st2 == IncDropped(st) IN
         Result(TC_ACT_SHOT,
                [ map EXCEPT ![src_ip] = st2 ],
                ring,
                EmitEvent(ring, src_ip, now_ns, st2))

\* Faulty variant: the protocol check of line 103 is missing.
tc_ingress_NoProtocolCheck(map, ring, pkt, now_ns, rate, b) ==
    IF ETH_HLEN > pkt.len
    THEN Result(TC_ACT_OK, map, ring, << >>)
    ELSE IF ETH_HLEN + IP_HLEN > pkt.len
    THEN Result(TC_ACT_OK, map, ring, << >>)
    ELSE LET src_ip == pkt.saddr
             st == bpf_map_lookup_elem(map, src_ip)
         IN  IF st = NULL
             THEN Result(TC_ACT_OK,
                         bpf_map_update_elem(map, src_ip, NewState(now_ns, b)),
                         ring, << >>)
             ELSE Decide(map, ring, src_ip, now_ns, Refill(st, now_ns, rate, b))

\* Faulty variant: the IPv4 header is checked against data_end with the
\* Ethernet header's size only (line 111 tests l3 instead of l3 + 1).
tc_ingress_NoL3Check(map, ring, pkt, now_ns, rate, b) ==
    IF pkt.protocol # bpf_htons(ETH_P_IP)
    THEN Result(TC_ACT_OK, map, ring, << >>)
    ELSE IF ETH_HLEN > pkt.len
    THEN Result(TC_ACT_OK, map, ring, << >>)
    ELSE LET src_ip == pkt.saddr
             st == bpf_map_lookup_elem(map, src_ip)
         IN  IF st = NULL
             THEN Result(TC_ACT_OK,
                         bpf_map_update_elem(map, src_ip, NewState(now_ns, b)),
                         ring, << >>)
             ELSE Decide(map, ring, src_ip, now_ns, Refill(st, now_ns, rate, b))

\* Lines 88-179: one whole invocation on the frame pkt at time now_ns.
tc_ingress(map, ring, pkt, now_ns, rate, b) ==
    IF pkt.protocol # bpf_htons(ETH_P_IP)
    THEN Result(TC_ACT_OK, map, ring, << >>)
    ELSE IF ETH_HLEN > pkt.len
    THEN Result(TC_ACT_OK, map, ring, << >>)
    ELSE IF ETH_HLEN + IP_HLEN > pkt.len
    THEN Result(TC_ACT_OK, map, ring, << >>)
    ELSE LET src_ip == pkt.saddr
             st == bpf_map_lookup_elem(map, src_ip)
         IN  IF st = NULL
             THEN Result(TC_ACT_OK,
                         bpf_map_update_elem(map, src_ip, NewState(now_ns, b)),
                         ring, << >>)
             ELSE Decide(map, ring, src_ip, now_ns, Refill(st, now_ns, rate, b))

\* TRUE when the frame reaches the source-address lookup of line 124.
Inspected(pkt) ==
    /\ pkt.protocol = bpf_htons(ETH_P_IP)
    /\ ETH_HLEN + IP_HLEN <= pkt.len

\* ------------------------------------------------------------ handle_event
\* Faulty variant: the address is converted to host order before printing.
handle_event_HostOrder(e) ==
    LET q == inet_ntop(e.src_ip) IN
    [ ip |-> << q[4], q[3], q[2], q[1] >>, dropped |-> e.dropped ]

\* Lines 305-334: the line printed for one record.
handle_event(e) == [ ip |-> inet_ntop(e.src_ip), dropped |-> e.dropped ]

\* ------------------------------------------------- layout of struct event
\* struct event as tc_ingress declares it (lines 48-52): the fields in
\* order, with their sizes in bytes.  A scalar field is aligned to its size.
struct_event_bpf ==
    << [ name |-> "src_ip",  size |-> 4 ],
       [ name |-> "ts_ns",   size |-> 8 ],
       [ name |-> "dropped", size |-> 4 ] >>

\* Faulty variant: the consumer declares the 64-bit field last.
struct_event_user_Reordered ==
    << [ name |-> "src_ip",  size |-> 4 ],
       [ name |-> "dropped", size |-> 4 ],
       [ name |-> "ts_ns",   size |-> 8 ] >>

\* struct event as the user-space program declares it (lines 197-205).
struct_event_user ==
    << [ name |-> "src_ip",  size |-> 4 ],
       [ name |-> "ts_ns",   size |-> 8 ],
       [ name |-> "dropped", size |-> 4 ] >>

\* n rounded up to a multiple of a.
AlignUp(n, a) == ((n + a - 1) \div a) * a

\* offsetof(struct, field i): the end of the field before it, rounded up to
\* the alignment of field i.
RECURSIVE offsetof(_, _)
offsetof(fields, i) ==
    IF i = 1 THEN 0
    ELSE AlignUp(offsetof(fields, i - 1) + fields[i - 1].size, fields[i].size)

\* The alignment of the struct: the largest alignment of its fields.
alignof(fields) ==
    CHOOSE a \in { fields[i].size : i \in DOMAIN fields } :
        \A i \in DOMAIN fields : fields[i].size <= a

\* sizeof(struct): the end of the last field, rounded up to the alignment of
\* the struct.
sizeof(fields) ==
    AlignUp(offsetof(fields, Len(fields)) + fields[Len(fields)].size,
            alignof(fields))

\* A byte no field covers.
Pad == << "pad", 0, 0 >>

\* The field of the struct that covers the byte at offset o (0: none).
FieldAt(fields, o) ==
    IF \E i \in DOMAIN fields :
          o \in offsetof(fields, i)..(offsetof(fields, i) + fields[i].size - 1)
    THEN CHOOSE i \in DOMAIN fields :
          o \in offsetof(fields, i)..(offsetof(fields, i) + fields[i].size - 1)
    ELSE 0

\* Lines 168-172: the sizeof(*e) bytes reserved in the ring buffer after the
\* three stores through e.  Byte k of field f holding v is << f, k, v >>.
RecordBytes(e) ==
    [ o \in 0..(sizeof(struct_event_bpf) - 1) |->
        LET i == FieldAt(struct_event_bpf, o) IN
        IF i = 0 THEN Pad
        ELSE << struct_event_bpf[i].name, o - offsetof(struct_event_bpf, i),
                e[struct_event_bpf[i].name] >> ]

\* Line 318 and the reads through e in handle_event: field i of the
\* consumer's struct read from the bytes of a record (NoRet: the bytes there
\* are not the bytes of that field).
ReadField(bytes, i) ==
    LET off == offsetof(struct_event_user, i)
        f   == struct_event_user[i]
    IN  IF /\ off + f.size - 1 \in DOMAIN bytes
           /\ \A k \in 0..(f.size - 1) :
                 /\ bytes[off + k][1] = f.name
                 /\ bytes[off + k][2] = k
                 /\ bytes[off + k][3] = bytes[off][3]
        THEN bytes[off][3]
        ELSE NoRet

\* The event handle_event sees in the bytes of a record.
ReadEvent(bytes) ==
    [ i \in DOMAIN struct_event_user |-> ReadField(bytes, i) ]

\* ------------------------------------------------- processing contexts
CPUs == 1..NumCPUs

\* A CPU that runs no invocation.  While it runs one: pc is the line it
\* executes next, now_ns, add, tokens and dropped are the locals and registers
\* of tc_ingress, live tells that st points at the element rate_map holds for
\* the source, own is the element st points at once another CPU's
\* bpf_map_update_elem has replaced it in the map, and e is the position of
\* the record reserved in the ring buffer (0: none).
Idle ==
    [ pc |-> "idle", now_ns |-> 0, live |-> FALSE, own |-> rate_state(0, 0, 0),
      add |-> 0, tokens |-> 0, dropped |-> 0, e |-> 0 ]

\* ------------------------------------------------------------- interfaces
\* env.ifname as initialised (line 226), and the interfaces of the host.
DefaultIface == "ens160"
Interfaces == { DefaultIface }

\* ---------------------------------------------------------------- actions
Configs == [ rate : 1..MaxRate, burst : 1..MaxBurst ]

EmptyMap == [ ip \in AllIPs |-> NULL ]

\* The map of a system that has only ever seen the source ip.
SoloMap(ip) == [ EmptyMap EXCEPT ![ip] = solo[ip] ]

\* The state once main() has written .rodata, loaded and attached the program
\* and entered its poll loop.
InitWith(cfgs, t0s) ==
    /\ \E c \in cfgs : rate_limit_pps = c.rate /\ burst = c.burst
    /\ ktime \in t0s
    /\ rate_map = EmptyMap
    /\ rb = << >>
    /\ ret = NoRet
    /\ printed = << >>
    /\ npkts = 0
    /\ solo = EmptyMap
    /\ solo_ret = NoRet
    /\ verdicts = << >>
    /\ submitted = << >>
    /\ reserved = << >>
    /\ frame = NoFrame
    /\ cpu = [ c \in CPUs |-> Idle ]
    /\ env = [ rate |-> rate_limit_pps, burst |-> burst, verbose |-> FALSE,
               ifname |-> DefaultIface ]
    /\ pc = "loop"
    /\ err = 0
    /\ exiting = 0
    /\ skel = "loaded"
    /\ rb_consumer = TRUE
    /\ clsact = TRUE
    /\ tc_filters = [ i \in Interfaces |-> { "this" } ]
    /\ stderr = << >>
    /\ exit_status = NoRet

Init == InitWith(Configs, {0})

\* The monotonic clock advances by d units.
Tick(d, tmax) ==
    /\ ktime + d <= tmax
    /\ ktime' = ktime + d
    /\ UNCHANGED << uvars, frame, rate_limit_pps, burst, rate_map, rb, ret, printed, npkts,
                    solo, solo_ret, verdicts, submitted, reserved, cpu >>

\* The same frame at the same time in a system that has only ever seen the
\* frame's source and whose ring buffer is empty.
Alone(pkt) ==
    tc_ingress(SoloMap(pkt.saddr), << >>, pkt, ktime, rate_limit_pps, burst)

\* One frame is handed to tc_ingress, which runs to completion.  With
\* counted, the invocation is counted in npkts; with traced, the frame is
\* kept in frame.
Invoke(pkt, counted, traced) ==
    /\ LET r == tc_ingress(rate_map, rb, pkt, ktime, rate_limit_pps, burst) IN
       /\ rate_map' = r.map
       /\ rb' = r.rb
       /\ ret' = r.ret
       /\ submitted' = submitted \o r.sub
       /\ reserved' = reserved \o r.sub
    /\ npkts' = IF counted THEN npkts + 1 ELSE npkts
    /\ frame' = IF traced THEN pkt ELSE frame
    /\ solo' = [ solo EXCEPT ![pkt.saddr] = Alone(pkt).map[pkt.saddr] ]
    /\ solo_ret' = Alone(pkt).ret
    /\ verdicts' =
          IF counted
          THEN Append(verdicts,
                      [ src |-> pkt.saddr, ts |-> ktime,
                        ret |-> tc_ingress(rate_map, rb, pkt, ktime,
                                           rate_limit_pps, burst).ret ])
          ELSE verdicts
    /\ UNCHANGED << uvars, rate_limit_pps, burst, ktime, printed, cpu >>

Ingress(pkt, counted) == Invoke(pkt, counted, FALSE)

IngressTraced(pkt) == Invoke(pkt, FALSE, TRUE)

\* ring_buffer__poll hands the oldest submitted record to handle_event and
\* releases it.
Consume ==
    /\ rb # << >>
    /\ ~ Head(rb).busy
    /\ printed' = Append(printed, handle_event(Head(rb)))
    /\ rb' = Tail(rb)
    /\ UNCHANGED << uvars, frame, rate_limit_pps, burst, ktime, rate_map, ret, npkts,
                    solo, solo_ret, verdicts, submitted, reserved, cpu >>

\* The packet path alone: the consumer is not scheduled.
Next ==
    \/ \E d \in 1..MaxTick : Tick(d, MaxTime)
    \/ \E pkt \in Packets : Ingress(pkt, FALSE)

Spec == Init /\ [][Next]_vars

\* The packet path and the consumer, for runs of at most MaxPkts frames.
NextChan ==
    \/ \E d \in 1..MaxTick : Tick(d, MaxTime)
    \/ \E pkt \in Packets : npkts < MaxPkts /\ Ingress(pkt, TRUE)
    \/ Consume

SpecChan == Init /\ [][NextChan]_vars

\* A burst: frames of one source only, all at the time of the first one,
\* each arriving while the channel has room; the consumer drains the channel.
InitBurst == InitWith(Configs, 0..MaxTime)

NextBurst ==
    \/ \E ip \in IPs :
          /\ \A other \in IPs \ {ip} : rate_map[other] = NULL
          /\ bpf_ringbuf_reserve(rb)
          /\ npkts < MaxPkts
          /\ Ingress(GoodPacket(ip), TRUE)
    \/ Consume

SpecBurst == InitBurst /\ [][NextBurst]_vars

\* One source on a long-running host: the clock runs over the whole __u64
\* range short of wrapping.
FirstIP == Addr(10, 0, 0, 1)

NextLong ==
    \/ \E d \in 1..MaxTick : Tick(d, U64 - 1)
    \/ Ingress(GoodPacket(FirstIP), FALSE)

SpecLong == Init /\ [][NextLong]_vars

\* More sources than rate_map has room for, each sending well-formed frames.
NextFull ==
    \/ \E d \in 1..MaxTick : Tick(d, MaxTimeShort)
    \/ \E ip \in AllIPs : Ingress(GoodPacket(ip), FALSE)

SpecFull == Init /\ [][NextFull]_vars

\* Frames of every kind, the last one being remembered.
NextParse ==
    \/ \E d \in 1..MaxTick : Tick(d, MaxTimeShort)
    \/ \E pkt \in Packets : IngressTraced(pkt)

SpecParse == Init /\ [][NextParse]_vars

\* ------------------------------------------------ concurrent invocations
\* tc_ingress on several CPUs at once, for frames of one source; every step
\* is one access to the memory the CPUs share (the clock, rate_map, the
\* element st points at, the ring buffer).

\* *st as CPU c reads it.
Deref(c) == IF cpu[c].live THEN rate_map[FirstIP] ELSE cpu[c].own

\* A store through st by CPU c that makes the element st2; the CPU goes on
\* as ctx.  A store to an element that was replaced in the map is not seen
\* by later lookups.
Store(c, st2, ctx) ==
    IF cpu[c].live
    THEN /\ rate_map' = [ rate_map EXCEPT ![FirstIP] = st2 ]
         /\ cpu' = [ cpu EXCEPT ![c] = ctx ]
    ELSE /\ rate_map' = rate_map
         /\ cpu' = [ cpu EXCEPT ![c] = [ ctx EXCEPT !.own = st2 ] ]

\* Lines 92-117: the header checks, then the clock is read.
smp_enter(c, pkt) ==
    /\ cpu[c].pc = "idle"
    /\ npkts < MaxPktsSMP
    /\ pkt.saddr = FirstIP
    /\ npkts' = npkts + 1
    /\ IF Inspected(pkt)
       THEN /\ cpu' = [ cpu EXCEPT ![c] = [ Idle EXCEPT !.pc = "lookup",
                                                         !.now_ns = ktime ] ]
            /\ ret' = ret
       ELSE /\ cpu' = cpu
            /\ ret' = TC_ACT_OK
    /\ UNCHANGED << uvars, frame, rate_limit_pps, burst, ktime, rate_map, rb, printed,
                    solo, solo_ret, verdicts, submitted, reserved >>

\* Faulty variant: the lookup waits for a lock that a CPU inside the program
\* holds.
smp_lookup_Locked(c) ==
    /\ cpu[c].pc = "lookup"
    /\ \A d \in CPUs \ { c } : cpu[d].pc = "idle"
    /\ IF bpf_map_lookup_elem(rate_map, FirstIP) = NULL
       THEN cpu' = [ cpu EXCEPT ![c].pc = "insert" ]
       ELSE cpu' = [ cpu EXCEPT ![c].pc = "elapsed", ![c].live = TRUE ]
    /\ UNCHANGED << uvars, frame, rate_limit_pps, burst, ktime, rate_map, rb, ret, printed,
                    npkts, solo, solo_ret, verdicts, submitted, reserved >>

\* Lines 124-125: st = bpf_map_lookup_elem(&rate_map, &src_ip).
smp_lookup(c) ==
    /\ cpu[c].pc = "lookup"
    /\ IF bpf_map_lookup_elem(rate_map, FirstIP) = NULL
       THEN cpu' = [ cpu EXCEPT ![c].pc = "insert" ]
       ELSE cpu' = [ cpu EXCEPT ![c].pc = "elapsed", ![c].live = TRUE ]
    /\ UNCHANGED << uvars, frame, rate_limit_pps, burst, ktime, rate_map, rb, ret, printed,
                    npkts, solo, solo_ret, verdicts, submitted, reserved >>

\* Lines 127-134: the new state is written with BPF_ANY and the frame is
\* admitted.  An element already present for the source is replaced: the CPUs
\* that looked it up keep pointing at the replaced element.
smp_insert(c) ==
    /\ cpu[c].pc = "insert"
    /\ rate_map' = bpf_map_update_elem(rate_map, FirstIP,
                                       NewState(cpu[c].now_ns, burst))
    /\ cpu' = [ d \in CPUs |->
                  IF d = c THEN Idle
                  ELSE IF cpu[d].live
                  THEN [ cpu[d] EXCEPT !.live = FALSE, !.own = rate_map[FirstIP] ]
                  ELSE cpu[d] ]
    /\ ret' = TC_ACT_OK
    /\ UNCHANGED << uvars, frame, rate_limit_pps, burst, ktime, rb, printed, npkts,
                    solo, solo_ret, verdicts, submitted, reserved >>

\* Lines 138-146: st->last_ts_ns is read, elapsed and add are computed.
smp_elapsed(c) ==
    /\ cpu[c].pc = "elapsed"
    /\ LET elapsed == Elapsed(cpu[c].now_ns, Deref(c))
           add == TokensToAdd(elapsed, rate_limit_pps)
       IN  IF rate_limit_pps > 0 /\ elapsed > 0 /\ add > 0
           THEN cpu' = [ cpu EXCEPT ![c].pc = "refill", ![c].add = add ]
           ELSE cpu' = [ cpu EXCEPT ![c].pc = "check" ]
    /\ UNCHANGED << uvars, frame, rate_limit_pps, burst, ktime, rate_map, rb, ret, printed,
                    npkts, solo, solo_ret, verdicts, submitted, reserved >>

\* Lines 147-150: st->tokens is read, add is added and the sum is capped.
smp_refill(c) ==
    /\ cpu[c].pc = "refill"
    /\ cpu' = [ cpu EXCEPT ![c].pc = "wr_tokens",
                           ![c].add = 0,
                           ![c].tokens =
                               CapTokens(ToU64(Deref(c).tokens + cpu[c].add), burst) ]
    /\ UNCHANGED << uvars, frame, rate_limit_pps, burst, ktime, rate_map, rb, ret, printed,
                    npkts, solo, solo_ret, verdicts, submitted, reserved >>

\* Line 152: st->tokens = (__u32)tokens.
smp_wr_tokens(c) ==
    /\ cpu[c].pc = "wr_tokens"
    /\ Store(c, [ Deref(c) EXCEPT !.tokens = cpu[c].tokens ],
             [ cpu[c] EXCEPT !.pc = "wr_ts", !.tokens = 0 ])
    /\ UNCHANGED << uvars, frame, rate_limit_pps, burst, ktime, rb, ret, printed, npkts,
                    solo, solo_ret, verdicts, submitted, reserved >>

\* Line 154: st->last_ts_ns = now_ns.
smp_wr_ts(c) ==
    /\ cpu[c].pc = "wr_ts"
    /\ Store(c, [ Deref(c) EXCEPT !.last_ts_ns = cpu[c].now_ns ],
             [ cpu[c] EXCEPT !.pc = "check" ])
    /\ UNCHANGED << uvars, frame, rate_limit_pps, burst, ktime, rb, ret, printed, npkts,
                    solo, solo_ret, verdicts, submitted, reserved >>

\* Line 159: if (st->tokens > 0).
smp_check(c) ==
    /\ cpu[c].pc = "check"
    /\ LET t == Deref(c).tokens IN
       cpu' = [ cpu EXCEPT ![c].pc = IF t > 0 THEN "dec" ELSE "inc",
                           ![c].tokens = t ]
    /\ UNCHANGED << uvars, frame, rate_limit_pps, burst, ktime, rate_map, rb, ret, printed,
                    npkts, solo, solo_ret, verdicts, submitted, reserved >>

\* Line 160, st->tokens--: the build may read st->tokens again rather than
\* use the value line 159 read.
smp_dec_load(c) ==
    /\ cpu[c].pc = "dec"
    /\ cpu' = [ cpu EXCEPT ![c].pc = "dec_st", ![c].tokens = Deref(c).tokens ]
    /\ UNCHANGED << uvars, frame, rate_limit_pps, burst, ktime, rate_map, rb, ret, printed,
                    npkts, solo, solo_ret, verdicts, submitted, reserved >>

\* Lines 160-161: the decremented value is stored and the frame is admitted.
smp_dec_store(c) ==
    /\ cpu[c].pc \in { "dec", "dec_st" }
    /\ rate_map' = IF cpu[c].live
                   THEN [ rate_map EXCEPT
                            ![FirstIP].tokens = ToU32(cpu[c].tokens - 1) ]
                   ELSE rate_map
    /\ cpu' = [ cpu EXCEPT ![c] = Idle ]
    /\ ret' = TC_ACT_OK
    /\ UNCHANGED << uvars, frame, rate_limit_pps, burst, ktime, rb, printed, npkts,
                    solo, solo_ret, verdicts, submitted, reserved >>

\* Line 165, st->dropped++: the count is read ...
smp_inc_load(c) ==
    /\ cpu[c].pc = "inc"
    /\ cpu' = [ cpu EXCEPT ![c].pc = "inc_st", ![c].tokens = 0,
                           ![c].dropped = Deref(c).dropped ]
    /\ UNCHANGED << uvars, frame, rate_limit_pps, burst, ktime, rate_map, rb, ret, printed,
                    npkts, solo, solo_ret, verdicts, submitted, reserved >>

\* ... and the incremented count is stored.
smp_inc_store(c) ==
    /\ cpu[c].pc = "inc_st"
    /\ Store(c, [ Deref(c) EXCEPT !.dropped = ToU32(cpu[c].dropped + 1) ],
             [ cpu[c] EXCEPT !.pc = "reserve", !.dropped = 0 ])
    /\ UNCHANGED << uvars, frame, rate_limit_pps, burst, ktime, rb, ret, printed, npkts,
                    solo, solo_ret, verdicts, submitted, reserved >>

\* Lines 168-169: a record is reserved at the producer position, busy until
\* it is submitted; without room the frame is dropped unreported (line 178).
smp_reserve(c) ==
    /\ cpu[c].pc = "reserve"
    /\ IF bpf_ringbuf_reserve(rb)
       THEN /\ rb' = Append(rb, event(0, 0, 0, TRUE))
            /\ reserved' = Append(reserved, event(0, 0, 0, TRUE))
            /\ cpu' = [ cpu EXCEPT ![c].pc = "fill", ![c].e = Len(reserved) + 1 ]
            /\ ret' = ret
       ELSE /\ rb' = rb
            /\ reserved' = reserved
            /\ cpu' = [ cpu EXCEPT ![c] = Idle ]
            /\ ret' = TC_ACT_SHOT
    /\ UNCHANGED << uvars, frame, rate_limit_pps, burst, ktime, rate_map, printed, npkts,
                    solo, solo_ret, verdicts, submitted >>

\* Lines 170-172: the record is filled; st->dropped is read again.
smp_fill(c) ==
    /\ cpu[c].pc = "fill"
    /\ LET rec == event(FirstIP, cpu[c].now_ns, Deref(c).dropped, TRUE) IN
       /\ rb' = [ rb EXCEPT ![cpu[c].e - Len(printed)] = rec ]
       /\ reserved' = [ reserved EXCEPT ![cpu[c].e] = rec ]
    /\ cpu' = [ cpu EXCEPT ![c].pc = "submit" ]
    /\ UNCHANGED << uvars, frame, rate_limit_pps, burst, ktime, rate_map, ret, printed, npkts,
                    solo, solo_ret, verdicts, submitted >>

\* Lines 174-178: bpf_ringbuf_submit clears the busy bit of the record, and
\* the frame is dropped.
smp_submit(c) ==
    /\ cpu[c].pc = "submit"
    /\ LET rec == [ reserved[cpu[c].e] EXCEPT !.busy = FALSE ] IN
       /\ rb' = [ rb EXCEPT ![cpu[c].e - Len(printed)] = rec ]
       /\ reserved' = [ reserved EXCEPT ![cpu[c].e] = rec ]
       /\ submitted' = Append(submitted, rec)
    /\ cpu' = [ cpu EXCEPT ![c] = Idle ]
    /\ ret' = TC_ACT_SHOT
    /\ UNCHANGED << uvars, frame, rate_limit_pps, burst, ktime, rate_map, printed, npkts,
                    solo, solo_ret, verdicts >>

\* The CPUs, the clock and the consumer, for runs of at most MaxPktsSMP frames.
NextSMP ==
    \/ \E d \in 1..MaxTick : Tick(d, MaxTime)
    \/ \E c \in CPUs, pkt \in Packets : smp_enter(c, pkt)
    \/ \E c \in CPUs : smp_lookup(c)
    \/ \E c \in CPUs : smp_insert(c)
    \/ \E c \in CPUs : smp_elapsed(c)
    \/ \E c \in CPUs : smp_refill(c)
    \/ \E c \in CPUs : smp_wr_tokens(c)
    \/ \E c \in CPUs : smp_wr_ts(c)
    \/ \E c \in CPUs : smp_check(c)
    \/ \E c \in CPUs : smp_dec_load(c)
    \/ \E c \in CPUs : smp_dec_store(c)
    \/ \E c \in CPUs : smp_inc_load(c)
    \/ \E c \in CPUs : smp_inc_store(c)
    \/ \E c \in CPUs : smp_reserve(c)
    \/ \E c \in CPUs : smp_fill(c)
    \/ \E c \in CPUs : smp_submit(c)
    \/ Consume

SpecSMP == Init /\ [][NextSMP]_vars

\* rate_map holding the first entry of every source but the first: with
\* MaxEntries of them the map is full.
OthersMap ==
    [ ip \in AllIPs |-> IF ip = FirstIP THEN NULL ELSE NewState(0, burst) ]

\* The CPUs start on an empty map or on one that other sources have filled.
InitOccupied ==
    /\ \E c \in Configs : rate_limit_pps = c.rate /\ burst = c.burst
    /\ ktime = 0
    /\ rate_map \in { EmptyMap, OthersMap }
    /\ rb = << >>
    /\ ret = NoRet
    /\ printed = << >>
    /\ npkts = 0
    /\ solo = rate_map
    /\ solo_ret = NoRet
    /\ verdicts = << >>
    /\ submitted = << >>
    /\ reserved = << >>
    /\ frame = NoFrame
    /\ cpu = [ c \in CPUs |-> Idle ]
    /\ env = [ rate |-> rate_limit_pps, burst |-> burst, verbose |-> FALSE,
               ifname |-> DefaultIface ]
    /\ pc = "loop"
    /\ err = 0
    /\ exiting = 0
    /\ skel = "loaded"
    /\ rb_consumer = TRUE
    /\ clsact = TRUE
    /\ tc_filters = [ i \in Interfaces |-> { "this" } ]
    /\ stderr = << >>
    /\ exit_status = NoRet

\* The statements of tc_ingress on CPU c once it has entered.
smp_step(c) ==
    \/ smp_lookup(c)
    \/ smp_insert(c)
    \/ smp_elapsed(c)
    \/ smp_refill(c)
    \/ smp_wr_tokens(c)
    \/ smp_wr_ts(c)
    \/ smp_check(c)
    \/ smp_dec_load(c)
    \/ smp_dec_store(c)
    \/ smp_inc_load(c)
    \/ smp_inc_store(c)
    \/ smp_reserve(c)
    \/ smp_fill(c)
    \/ smp_submit(c)

SpecOccupied == InitOccupied /\ [][NextSMP]_vars

\* One source sends frames, one at a time, while the clock advances; the map
\* is empty at first, or full of the entries of other sources.
NextRate ==
    \/ \E d \in 1..MaxTick : Tick(d, MaxTime)
    \/ /\ npkts < MaxPkts
       /\ Ingress(GoodPacket(FirstIP), TRUE)

SpecRate == InitOccupied /\ [][NextRate]_vars

\* A flooding source: its next frame arrives one clock unit after the last
\* one (FloodArrival) or within the same unit (FloodIngress), so that no
\* clock value passes without a frame of the source.
FloodArrival ==
    LET pkt == GoodPacket(FirstIP)
        now_ns == ktime + 1
        r == tc_ingress(rate_map, rb, pkt, now_ns, rate_limit_pps, burst)
        alone == tc_ingress(SoloMap(pkt.saddr), << >>, pkt, now_ns,
                            rate_limit_pps, burst)
    IN  /\ now_ns <= U64 - 1
        /\ ktime' = now_ns
        /\ rate_map' = r.map
        /\ rb' = r.rb
        /\ ret' = r.ret
        /\ submitted' = submitted \o r.sub
        /\ reserved' = reserved \o r.sub
        /\ solo' = [ solo EXCEPT ![pkt.saddr] = alone.map[pkt.saddr] ]
        /\ solo_ret' = alone.ret
        /\ UNCHANGED << uvars, rate_limit_pps, burst, printed, npkts, frame,
                        verdicts, cpu >>

FloodIngress == Ingress(GoodPacket(FirstIP), FALSE)

NextFlood ==
    \/ FloodArrival
    \/ FloodIngress

\* The source never stops sending, so the clock goes on.
SpecFlood ==
    /\ Init
    /\ [][NextFlood]_vars
    /\ WF_vars(FloodArrival)

\* A CPU that has entered tc_ingress goes on executing it: the program is
\* not preempted for good.
SpecOccupiedFair == SpecOccupied /\ \A c \in CPUs : WF_vars(smp_step(c))

\* ------------------------------------------------------------------ main
\* errno values the loader meets.
EPERM == 1
EINTR == 4
EBADF == 9
EEXIST == 17
EINVAL == 22

\* Interface names given with --iface.
IfNames == Interfaces \cup { "doesnotexist" }

\* Errors rateLimiter_bpf__load and ring_buffer__poll return.
LoadErrors == { 0 - EPERM, 0 - EINVAL }
PollErrors == { 0 - EBADF, 0 - EINVAL }

\* The status the parent sees when main returns x: its low eight bits.
ExitStatus(x) == x % 256

\* if_nametoindex: 0 for an unknown name.
if_nametoindex(ifname) == IF ifname \in Interfaces THEN 1 ELSE 0

\* The values bpf_tc_attach may return on the interface: no parent qdisc
\* (attach_tc never creates the hook), an attachment that already exists,
\* or success.
bpf_tc_attach(ifname) ==
    IF ~ clsact THEN { 0 - EINVAL }
    ELSE IF tc_filters[ifname] # {} THEN { 0, 0 - EEXIST }
    ELSE { 0 }

\* Faulty variant: main returns err instead of -err.
Return_Unnegated(x) ==
    /\ pc' = "done"
    /\ exit_status' = ExitStatus(0 - x)

\* return x from main.
Return(x) ==
    /\ pc' = "done"
    /\ exit_status' = ExitStatus(x)

\* The process as argp_parse leaves it (line 405): no skeleton, no consumer.
InitMain ==
    /\ rate_limit_pps = 0
    /\ burst = 0
    /\ ktime = 0
    /\ rate_map = EmptyMap
    /\ rb = << >>
    /\ ret = NoRet
    /\ printed = << >>
    /\ npkts = 0
    /\ solo = EmptyMap
    /\ solo_ret = NoRet
    /\ verdicts = << >>
    /\ submitted = << >>
    /\ reserved = << >>
    /\ frame = NoFrame
    /\ cpu = [ c \in CPUs |-> Idle ]
    /\ \E c \in Configs, n \in IfNames :
          env = [ rate |-> c.rate, burst |-> c.burst, verbose |-> FALSE,
                  ifname |-> n ]
    /\ pc = "setup"
    /\ err = 0
    /\ exiting = 0
    /\ skel = "none"
    /\ rb_consumer = FALSE
    /\ clsact \in BOOLEAN
    /\ \E prev \in { {}, { "previous" } } :
          /\ prev # {} => clsact
          /\ tc_filters = [ i \in Interfaces |-> prev ]
    /\ stderr = << >>
    /\ exit_status = NoRet

\* Lines 409-410: setup() installs the handlers, or fails.
main_setup ==
    /\ pc = "setup"
    /\ \E ok \in BOOLEAN :
          IF ok
          THEN /\ pc' = "open"
               /\ UNCHANGED << stderr, exit_status >>
          ELSE /\ stderr' = Append(stderr, "setup")
               /\ Return(1)
    /\ UNCHANGED << kvars, env, err, exiting, skel, rb_consumer, clsact,
                    tc_filters >>

\* Faulty variant: the skeleton is opened and .rodata is left as compiled.
main_open_NoConfig ==
    /\ pc = "open"
    /\ \E ok \in BOOLEAN :
          IF ok
          THEN /\ skel' = "open"
               /\ pc' = "load"
               /\ UNCHANGED << stderr, exit_status >>
          ELSE /\ stderr' = Append(stderr, "Failed to open BPF skeleton")
               /\ Return(1)
               /\ UNCHANGED skel
    /\ UNCHANGED << kvars, env, err, exiting, rb_consumer, clsact, tc_filters >>

\* Lines 416-424: the skeleton is opened and the configuration is written to
\* .rodata.
main_open ==
    /\ pc = "open"
    /\ \E ok \in BOOLEAN :
          IF ok
          THEN /\ skel' = "open"
               /\ rate_limit_pps' = env.rate
               /\ burst' = env.burst
               /\ pc' = "load"
               /\ UNCHANGED << stderr, exit_status >>
          ELSE /\ stderr' = Append(stderr, "Failed to open BPF skeleton")
               /\ Return(1)
               /\ UNCHANGED << skel, rate_limit_pps, burst >>
    /\ UNCHANGED << ktime, rate_map, rb, ret, printed, npkts, solo, solo_ret, verdicts,
                    submitted, reserved, frame, cpu >>
    /\ UNCHANGED << env, err, exiting, rb_consumer, clsact, tc_filters >>

\* Faulty variant: a failed load is logged and startup goes on.
main_load_ContinueOnError ==
    /\ pc = "load"
    /\ \E e \in { 0 } \cup LoadErrors :
          /\ err' = e
          /\ pc' = "attach"
          /\ IF e # 0
             THEN /\ stderr' = Append(stderr, "Failed to load and verify BPF skeleton")
                  /\ skel' = skel
             ELSE /\ stderr' = stderr
                  /\ skel' = "loaded"
    /\ UNCHANGED << kvars, env, exiting, rb_consumer, clsact, tc_filters,
                    exit_status >>

\* Lines 434-438: rateLimiter_bpf__load.
main_load ==
    /\ pc = "load"
    /\ \E e \in { 0 } \cup LoadErrors :
          /\ err' = e
          /\ IF e # 0
             THEN /\ stderr' = Append(stderr, "Failed to load and verify BPF skeleton")
                  /\ pc' = "cleanup"
                  /\ skel' = skel
             ELSE /\ stderr' = stderr
                  /\ pc' = "attach"
                  /\ skel' = "loaded"
    /\ UNCHANGED << kvars, env, exiting, rb_consumer, clsact, tc_filters,
                    exit_status >>

\* Faulty variant: -EEXIST from bpf_tc_attach is taken as success.
main_attach_TolerateEEXIST ==
    /\ pc = "attach"
    /\ IF if_nametoindex(env.ifname) = 0
       THEN /\ stderr' = Append(stderr, "if_nametoindex failed")
            /\ err' = 0 - 1
            /\ pc' = "cleanup"
            /\ tc_filters' = tc_filters
       ELSE \E e \in bpf_tc_attach(env.ifname) :
               /\ err' = e
               /\ IF e # 0 /\ e # 0 - EEXIST
                  THEN /\ stderr' = Append(stderr, "bpf_tc_attach failed")
                       /\ pc' = "cleanup"
                       /\ tc_filters' = tc_filters
                  ELSE /\ stderr' = stderr
                       /\ pc' = "ringbuf"
                       /\ tc_filters' =
                             [ tc_filters EXCEPT ![env.ifname] = @ \cup { "this" } ]
    /\ UNCHANGED << kvars, env, exiting, skel, rb_consumer, clsact, exit_status >>

\* Lines 441-443 with attach_tc (lines 341-387).
main_attach ==
    /\ pc = "attach"
    /\ IF if_nametoindex(env.ifname) = 0
       THEN /\ stderr' = Append(stderr, "if_nametoindex failed")
            /\ err' = 0 - 1
            /\ pc' = "cleanup"
            /\ tc_filters' = tc_filters
       ELSE \E e \in bpf_tc_attach(env.ifname) :
               /\ err' = e
               /\ IF e # 0
                  THEN /\ stderr' = Append(stderr, "bpf_tc_attach failed")
                       /\ pc' = "cleanup"
                       /\ tc_filters' = tc_filters
                  ELSE /\ stderr' = stderr
                       /\ pc' = "ringbuf"
                       /\ tc_filters' =
                             [ tc_filters EXCEPT ![env.ifname] = @ \cup { "this" } ]
    /\ UNCHANGED << kvars, env, exiting, skel, rb_consumer, clsact, exit_status >>

\* Lines 446-455: ring_buffer__new.
main_ring_buffer_new ==
    /\ pc = "ringbuf"
    /\ \E ok \in BOOLEAN :
          IF ok
          THEN /\ rb_consumer' = TRUE
               /\ pc' = "loop"
               /\ UNCHANGED << err, stderr >>
          ELSE /\ stderr' = Append(stderr, "Failed to create ring buffer")
               /\ err' = 0 - 1
               /\ pc' = "cleanup"
               /\ rb_consumer' = FALSE
    /\ UNCHANGED << kvars, env, exiting, skel, clsact, tc_filters, exit_status >>

\* Faulty variant: the loop test does not read the flag.
main_loop_IgnoreFlag ==
    /\ pc = "loop"
    /\ pc' = "poll"
    /\ UNCHANGED << kvars, env, err, exiting, skel, rb_consumer, clsact,
                    tc_filters, stderr, exit_status >>

\* Faulty variant: the loop also ends when a poll has timed out.
main_loop_ExitWhenIdle ==
    /\ pc = "loop"
    /\ pc' = IF exiting = 0 /\ (err # 0 \/ printed = << >>)
             THEN "poll" ELSE "cleanup"
    /\ UNCHANGED << kvars, env, err, exiting, skel, rb_consumer, clsact,
                    tc_filters, stderr, exit_status >>

\* Line 457: while (!exiting).
main_loop ==
    /\ pc = "loop"
    /\ pc' = IF exiting = 0 THEN "poll" ELSE "cleanup"
    /\ UNCHANGED << kvars, env, err, exiting, skel, rb_consumer, clsact,
                    tc_filters, stderr, exit_status >>

\* Lines 458-466, ring_buffer__poll returns the number of records it handed
\* to handle_event: all that are submitted, oldest first.
main_poll ==
    /\ pc = "poll"
    /\ \A i \in 1..Len(rb) : ~ rb[i].busy
    /\ printed' = printed \o [ i \in 1..Len(rb) |-> handle_event(rb[i]) ]
    /\ rb' = << >>
    /\ err' = Len(rb)
    /\ pc' = "loop"
    /\ UNCHANGED << rate_limit_pps, burst, ktime, rate_map, ret, npkts, solo,
                    solo_ret, verdicts, submitted, reserved, frame, cpu >>
    /\ UNCHANGED << env, exiting, skel, rb_consumer, clsact, tc_filters, stderr,
                    exit_status >>

\* Lines 458-462, the wait of ring_buffer__poll is interrupted: by SIGINT or
\* SIGTERM, whose handler has set exiting, or by the process being stopped
\* and continued, which runs no handler.
main_poll_eintr ==
    /\ pc = "poll"
    /\ rb = << >>
    /\ \E handled \in BOOLEAN : exiting' = IF handled THEN 1 ELSE exiting
    /\ err' = 0
    /\ pc' = "cleanup"
    /\ UNCHANGED << kvars, env, skel, rb_consumer, clsact, tc_filters, stderr,
                    exit_status >>

\* Lines 458-466, ring_buffer__poll fails.
main_poll_error ==
    /\ pc = "poll"
    /\ \E e \in PollErrors : err' = e
    /\ stderr' = Append(stderr, "Error polling ring buffer")
    /\ pc' = "cleanup"
    /\ UNCHANGED << kvars, env, exiting, skel, rb_consumer, clsact, tc_filters,
                    exit_status >>

\* Faulty variant: main returns without destroying the skeleton.
main_cleanup_NoDestroy ==
    /\ pc = "cleanup"
    /\ Return(0 - err)
    /\ UNCHANGED << kvars, env, err, exiting, skel, rb_consumer, clsact,
                    tc_filters, stderr >>

\* Lines 469-471: the skeleton is destroyed and main returns -err.  Nothing
\* here removes the filter bpf_tc_attach created.
main_cleanup ==
    /\ pc = "cleanup"
    /\ skel' = "destroyed"
    /\ Return(0 - err)
    /\ UNCHANGED << kvars, env, err, exiting, rb_consumer, clsact, tc_filters,
                    stderr >>

\* SIGINT or SIGTERM is delivered while main runs outside the wait of
\* ring_buffer__poll, once setup() has installed handle_signal.
handle_signal ==
    /\ pc \notin { "setup", "done" }
    /\ exiting = 0
    /\ exiting' = 1
    /\ UNCHANGED << kvars, env, pc, err, skel, rb_consumer, clsact, tc_filters,
                    stderr, exit_status >>

\* A frame of the first source reaches the interface while the program this
\* process attached is on its ingress path.
main_ingress ==
    /\ "this" \in tc_filters[DefaultIface]
    /\ npkts < MaxPktsMain
    /\ Ingress(GoodPacket(FirstIP), TRUE)

NextMain ==
    \/ main_setup
    \/ main_open
    \/ main_load
    \/ main_attach
    \/ main_ring_buffer_new
    \/ main_loop
    \/ main_poll
    \/ main_poll_eintr
    \/ main_poll_error
    \/ main_cleanup
    \/ handle_signal
    \/ main_ingress

SpecMain == InitMain /\ [][NextMain]_vars

\* The statements of main itself (lines 409-471): the process is scheduled,
\* and every call main makes returns (ring_buffer__poll waits at most 100 ms,
\* line 458).
main_step ==
    \/ main_setup
    \/ main_open
    \/ main_load
    \/ main_attach
    \/ main_ring_buffer_new
    \/ main_loop
    \/ main_poll
    \/ main_poll_eintr
    \/ main_poll_error
    \/ main_cleanup

\* SpecMain with main making progress; signals and frames may or may not
\* arrive.
SpecMainFair == SpecMain /\ WF_vars(main_step)

\* ----------------------------------------------------------- command line
\* The widths of int and long, scaled like __u32 and __u64 (LP64).
INT_MAX == U32 \div 2 - 1
LONG_MAX == U64 \div 2 - 1
LONG_MIN == 0 - U64 \div 2

\* The defaults of env.rate and env.burst (1000 and 200), scaled: positive
\* values of an int.
DefaultRate == INT_MAX
DefaultBurst == INT_MAX

IFNAMSIZ == 16
ERANGE == 34
ENOMEM == 12
EX_USAGE == 64

\* (int)val: the low bits of val, read as a signed int.
ToInt(val) ==
    LET u == val % U32 IN IF u > INT_MAX THEN u - U32 ELSE u

\* The characters of the arguments given to --rate and --burst, and the
\* arguments: every text of at most MaxArgLen of them.
ArgChars == { "-", "0", "1", "2", "4", "9", "a" }
NumArgs == UNION { [ 1..n -> ArgChars ] : n \in 0..MaxArgLen }

\* The arguments given to --iface: the interface of the host, a name no
\* interface has, and a name of IFNAMSIZ characters.
IfaceArgs == IfNames \cup { "abcdefghijklmnop" }

DigitValue ==
    [ c \in { "0", "1", "2", "3", "4", "5", "6", "7", "8", "9" } |->
        CASE c = "0" -> 0 [] c = "1" -> 1 [] c = "2" -> 2 [] c = "3" -> 3
          [] c = "4" -> 4 [] c = "5" -> 5 [] c = "6" -> 6 [] c = "7" -> 7
          [] c = "8" -> 8 [] c = "9" -> 9 ]

\* The decimal digits of s from position i on, up to the first character
\* that is not one, accumulated onto acc.
RECURSIVE Digits(_, _, _)
Digits(s, i, acc) ==
    IF i > Len(s) \/ s[i] \notin DOMAIN DigitValue
    THEN acc
    ELSE Digits(s, i + 1, 10 * acc + DigitValue[s[i]])

\* strtol(s, NULL, 10) with errno cleared before: an optional sign, then
\* digits; text without digits gives 0, a value outside long gives the
\* nearest bound and ERANGE.
strtol(s) ==
    LET signed == Len(s) > 0 /\ s[1] \in { "-", "+" }
        mag    == Digits(s, IF signed THEN 2 ELSE 1, 0)
        v      == IF signed /\ s[1] = "-" THEN 0 - mag ELSE mag
    IN  IF v > LONG_MAX THEN [ val |-> LONG_MAX, errno |-> ERANGE ]
        ELSE IF v < LONG_MIN THEN [ val |-> LONG_MIN, errno |-> ERANGE ]
        ELSE [ val |-> v, errno |-> 0 ]

\* argp_usage: the usage text is printed and the process exits with
\* EX_USAGE.
argp_usage(msg) ==
    /\ stderr' = Append(stderr, msg)
    /\ Return(EX_USAGE)
    /\ UNCHANGED env

\* Lines 244-286: parse_arg for one option of the command line.
parse_arg(key, arg) ==
    /\ pc = "argp"
    /\ CASE key = "i" ->
              IF Len(arg) >= IFNAMSIZ
              THEN argp_usage("Interface name too long")
              ELSE /\ env' = [ env EXCEPT !.ifname = arg ]
                   /\ UNCHANGED << pc, stderr, exit_status >>
         [] key = "r" ->
              LET r == strtol(arg) IN
              IF r.errno # 0 \/ r.val <= 0
              THEN argp_usage("Invalid rate")
              ELSE /\ env' = [ env EXCEPT !.rate = ToInt(r.val) ]
                   /\ UNCHANGED << pc, stderr, exit_status >>
         [] key = "b" ->
              LET r == strtol(arg) IN
              IF r.errno # 0 \/ r.val <= 0
              THEN argp_usage("Invalid burst")
              ELSE /\ env' = [ env EXCEPT !.burst = ToInt(r.val) ]
                   /\ UNCHANGED << pc, stderr, exit_status >>
         [] key = "v" ->
              /\ env' = [ env EXCEPT !.verbose = TRUE ]
              /\ UNCHANGED << pc, stderr, exit_status >>
         [] key \in { "h", "ARG" } ->
              argp_usage("Usage")
    /\ UNCHANGED << kvars, err, exiting, skel, rb_consumer, clsact, tc_filters >>

\* Line 405-407: argp_parse has handed every option to parse_arg and
\* returns, 0 or an error of its own.
argp_parse_return ==
    /\ pc = "argp"
    /\ \E e \in { 0, ENOMEM } :
          /\ err' = e
          /\ IF e # 0
             THEN Return(e)
             ELSE pc' = "setup" /\ UNCHANGED exit_status
    /\ UNCHANGED << kvars, env, exiting, skel, rb_consumer, clsact, tc_filters,
                    stderr >>

\* The process as it is started: env holds its defaults (lines 222-227).
InitArgs ==
    /\ rate_limit_pps = 0
    /\ burst = 0
    /\ ktime = 0
    /\ rate_map = EmptyMap
    /\ rb = << >>
    /\ ret = NoRet
    /\ printed = << >>
    /\ npkts = 0
    /\ solo = EmptyMap
    /\ solo_ret = NoRet
    /\ verdicts = << >>
    /\ submitted = << >>
    /\ reserved = << >>
    /\ frame = NoFrame
    /\ cpu = [ c \in CPUs |-> Idle ]
    /\ env = [ rate |-> DefaultRate, burst |-> DefaultBurst, verbose |-> FALSE,
               ifname |-> DefaultIface ]
    /\ pc = "argp"
    /\ err = 0
    /\ exiting = 0
    /\ skel = "none"
    /\ rb_consumer = FALSE
    /\ clsact = TRUE
    /\ tc_filters = [ i \in Interfaces |-> {} ]
    /\ stderr = << >>
    /\ exit_status = NoRet

NextArgs ==
    \/ \E arg \in IfaceArgs : parse_arg("i", arg)
    \/ \E arg \in NumArgs : parse_arg("r", arg)
    \/ \E arg \in NumArgs : parse_arg("b", arg)
    \/ parse_arg("v", "")
    \/ \E key \in { "h", "ARG" } : parse_arg(key, "")
    \/ argp_parse_return
    \/ NextMain

SpecArgs == InitArgs /\ [][NextArgs]_vars

TypeOK ==
    /\ skel \in { "none", "open", "loaded", "destroyed" }
    /\ skel # "none" => rate_limit_pps \in 1..MaxRate
    /\ skel # "none" => burst \in 1..MaxBurst
    /\ pc \in { "argp", "setup", "open", "load", "attach", "ringbuf", "loop",
                "poll", "cleanup", "done" }
    /\ exiting \in { 0, 1 }
    /\ exit_status \in { NoRet } \cup 0..255
    /\ (exit_status # NoRet) = (pc = "done")
    /\ ktime \in 0..(U64 - 1)
    /\ Cardinality(Entries(rate_map)) <= MaxEntries
    /\ \A ip \in AllIPs : rate_map[ip] # NULL =>
          /\ rate_map[ip].last_ts_ns \in 0..(U64 - 1)
          /\ rate_map[ip].tokens \in 0..(U32 - 1)
          /\ rate_map[ip].dropped \in 0..(U32 - 1)
    /\ Len(rb) <= RbRecords
    /\ ret \in { NoRet, TC_ACT_OK, TC_ACT_SHOT }
    /\ Len(reserved) = Len(printed) + Len(rb)
    /\ \A c \in CPUs :
          /\ cpu[c].pc \in { "idle", "lookup", "insert", "elapsed", "refill",
                             "wr_tokens", "wr_ts", "check", "dec", "dec_st",
                             "inc", "inc_st", "reserve", "fill", "submit" }
          /\ cpu[c].now_ns \in 0..(U64 - 1)
          /\ cpu[c].pc \in { "fill", "submit" } =>
                 /\ cpu[c].e \in (Len(printed) + 1)..Len(reserved)
                 /\ reserved[cpu[c].e].busy

\* ----------------------------------------------------------------- claims
\* A step in which tc_ingress processes the frame pkt.
IngressStep(pkt) ==
    \/ Ingress(pkt, TRUE)
    \/ Ingress(pkt, FALSE)
    \/ IngressTraced(pkt)

\* A step in which tc_ingress processes a frame of a source that has an entry.
KnownStep(pkt) ==
    /\ Inspected(pkt)
    /\ rate_map[pkt.saddr] # NULL
    /\ IngressStep(pkt)

\* C2: with rate_limit_pps > 0 and burst > 0, every entry of rate_map holds
\* 0 <= tokens <= burst after any sequence of invocations run one at a time.
C2_TokensWithinBurst ==
    (rate_limit_pps > 0 /\ burst > 0) =>
        \A ip \in IPs : rate_map[ip] # NULL =>
            /\ 0 <= rate_map[ip].tokens
            /\ rate_map[ip].tokens <= burst

\* C2 witness: a bucket that was drained (a packet was dropped), later
\* refilled up to the cap, and has given one token to the refilling packet.
C2_Witness ==
    \E ip \in IPs :
        /\ rate_map[ip] # NULL
        /\ burst >= 2
        /\ rate_map[ip].dropped > 0
        /\ rate_map[ip].last_ts_ns > 0
        /\ rate_map[ip].tokens = burst - 1
        /\ ret = TC_ACT_OK

\* C5 as stated: the dropped count stored for a source never decreases from
\* one state to the next.
C5_DroppedNeverDecreases ==
    [][ \A ip \in IPs :
          (rate_map[ip] # NULL /\ rate_map'[ip] # NULL) =>
              rate_map'[ip].dropped >= rate_map[ip].dropped ]_vars

\* C5 amended: an entry stays, and its dropped count never decreases except
\* that the __u32 counter wraps from its largest value to 0.
C5_DroppedMonotoneUpToWrap ==
    [][ \A ip \in IPs :
          rate_map[ip] # NULL =>
              /\ rate_map'[ip] # NULL
              /\ \/ rate_map'[ip].dropped >= rate_map[ip].dropped
                 \/ /\ rate_map[ip].dropped = U32 - 1
                    /\ rate_map'[ip].dropped = 0 ]_vars

\* C5 witness: a source whose counter has been incremented up to the last
\* value before the wrap, by a dropped packet.
C5_Witness ==
    \E ip \in IPs :
        /\ rate_map[ip] # NULL
        /\ rate_map[ip].dropped = U32 - 1
        /\ ret = TC_ACT_SHOT

\* C6: the verdicts and the bucket of a source are those it would get if no
\* other source ever sent a frame (and the consumer always kept up), for
\* sources that all fit in rate_map.
C6_SourcesIndependent ==
    (NumIPs <= MaxEntries) =>
        /\ \A ip \in IPs : rate_map[ip] = solo[ip]
        /\ ret = solo_ret

\* C6 witness: two sources with entries created at different times, one of
\* them drained and dropping, the other still holding tokens, while the ring
\* buffer is full.
C6_Witness ==
    \E ip1, ip2 \in IPs :
        /\ ip1 # ip2
        /\ rate_map[ip1] # NULL /\ rate_map[ip2] # NULL
        /\ rate_map[ip1].last_ts_ns # rate_map[ip2].last_ts_ns
        /\ rate_map[ip1].dropped > 1
        /\ rate_map[ip2].tokens > 0
        /\ Len(rb) = RbRecords
        /\ ret = TC_ACT_SHOT

\* The decision of lines 158-178 on a frame of the known source ip, told from
\* the refilled entry: admit and take one token, or drop, count and report.
\* exact: the count grows by exactly 1; otherwise by 1 modulo 2^32.
DecisionPost(ip, exact) ==
    LET st == Refill(rate_map[ip], ktime, rate_limit_pps, burst)
        new == rate_map'[ip]
    IN  IF st.tokens > 0
        THEN /\ ret' = TC_ACT_OK
             /\ new.tokens = st.tokens - 1
             /\ new.dropped = st.dropped
             /\ rb' = rb
        ELSE /\ ret' = TC_ACT_SHOT
             /\ new.tokens = 0
             /\ new.dropped = IF exact THEN st.dropped + 1
                                        ELSE (st.dropped + 1) % U32
             /\ Len(rb) < RbRecords =>
                    rb' = Append(rb, [ src_ip |-> ip, ts_ns |-> ktime,
                                       dropped |-> new.dropped, busy |-> FALSE ])

\* C7 as stated: tokens > 0 admits, takes exactly one token, leaves dropped
\* and the channel alone; tokens = 0 drops, keeps tokens at 0, adds exactly 1
\* to dropped and, given room, emits one event with the source, now and the
\* new count.
C7_DecisionStep ==
    [][ \A pkt \in Packets : KnownStep(pkt) => DecisionPost(pkt.saddr, TRUE) ]_vars

\* C7 amended: the same, the count being incremented modulo 2^32.
C7_DecisionStepModulo ==
    [][ \A pkt \in Packets : KnownStep(pkt) => DecisionPost(pkt.saddr, FALSE) ]_vars

\* C7 witness: a packet was dropped on an empty bucket and its event, with
\* the new count, is in the channel.
C7_Witness ==
    /\ ret = TC_ACT_SHOT
    /\ rb # << >>
    /\ \E ip \in IPs :
          /\ rate_map[ip] # NULL
          /\ rate_map[ip].tokens = 0
          /\ rb[Len(rb)] = [ src_ip |-> ip, ts_ns |-> ktime,
                              dropped |-> rate_map[ip].dropped, busy |-> FALSE ]

\* C8: a frame of a source without entry, the map having room, is admitted,
\* emits nothing, and creates the entry (now, burst - 1, 0).
C8_LookupOrInitialize ==
    [][ \A pkt \in Packets :
          ( /\ Inspected(pkt)
            /\ rate_map[pkt.saddr] = NULL
            /\ Cardinality(Entries(rate_map)) < MaxEntries
            /\ IngressStep(pkt) )
          => /\ ret' = TC_ACT_OK
             /\ rb' = rb
             /\ printed' = printed
             /\ rate_map' = [ rate_map EXCEPT ![pkt.saddr] =
                                [ last_ts_ns |-> ktime,
                                  tokens |-> burst - 1,
                                  dropped |-> 0 ] ] ]_vars

\* C8 witness: the second source has just been admitted on its first frame,
\* at a later time than the first source.
C8_Witness ==
    /\ ret = TC_ACT_OK
    /\ ktime > 0
    /\ \E ip1, ip2 \in IPs :
          /\ ip1 # ip2
          /\ rate_map[ip1] # NULL
          /\ rate_map[ip1].last_ts_ns < ktime
          /\ rate_map[ip2] = [ last_ts_ns |-> ktime, tokens |-> burst - 1,
                                dropped |-> 0 ]

\* C9: a frame that must be dropped while the channel is full is dropped
\* without blocking, its source's count is incremented, and the map and the
\* verdict are those of the same frame with room in the channel; only the
\* record is missing.
C9_BestEffortEvent ==
    /\ [](\A pkt \in Packets : ENABLED Ingress(pkt, FALSE))
    /\ [][ \A pkt \in Packets :
             ( /\ Len(rb) >= RbRecords
               /\ KnownStep(pkt)
               /\ Refill(rate_map[pkt.saddr], ktime, rate_limit_pps, burst).tokens = 0 )
             => LET room == tc_ingress(rate_map, << >>, pkt, ktime,
                                       rate_limit_pps, burst)
                IN  /\ ret' = TC_ACT_SHOT
                    /\ rate_map'[pkt.saddr].dropped =
                          (rate_map[pkt.saddr].dropped + 1) % U32
                    /\ rate_map'[pkt.saddr].tokens = 0
                    /\ rb' = rb
                    /\ room.ret = ret'
                    /\ room.map = rate_map'
                    /\ Len(room.rb) = 1 ]_vars

\* C9 witness: the channel is full and a source's count has been incremented
\* past every record the channel holds for it.
C9_Witness ==
    /\ ret = TC_ACT_SHOT
    /\ Len(rb) = RbRecords
    /\ \E ip \in IPs :
          /\ rate_map[ip] # NULL
          /\ rate_map[ip].dropped = 2
          /\ \A i \in 1..Len(rb) :
                rb[i].src_ip = ip => rb[i].dropped < 2

\* The events of one source reported so far, oldest first: the counts of the
\* lines printed, then those of the records still in the channel.
ReportedCounts ==
    [ i \in 1..Len(printed) |-> printed[i].dropped ]
        \o [ i \in 1..Len(rb) |-> rb[i].dropped ]

\* After k frames of a burst of one unseen source: the frame is admitted iff
\* it is among the first burst ones, and the events carry 1, 2, ..., k - burst
\* (exact) or these counts modulo 2^32.
BurstPost(exact) ==
    npkts >= 1 =>
        LET k == npkts
            nd == IF k > burst THEN k - burst ELSE 0
        IN  /\ ret = IF k <= burst THEN TC_ACT_OK ELSE TC_ACT_SHOT
            /\ \E ip \in IPs :
                  /\ rate_map[ip] # NULL
                  /\ rate_map[ip].tokens = IF k <= burst THEN burst - k ELSE 0
                  /\ \A i \in 1..Len(printed) :
                        printed[i].ip = << 10, 0, 0, ip \div 16777216 >>
                  /\ \A i \in 1..Len(rb) : rb[i].src_ip = ip
            /\ ReportedCounts =
                  [ i \in 1..nd |-> IF exact THEN i ELSE i % U32 ]

\* C1 as stated: of N > B frames of one unseen source at one timestamp, with
\* room in the channel, exactly the first B are admitted, the others are
\* dropped, and the events carry the counts 1, 2, ..., N - B in order.
C1_BurstAdmitsExactlyB == BurstPost(TRUE)

\* C1 amended: the same, the counts being taken modulo 2^32.
C1_BurstAdmitsExactlyBModulo == BurstPost(FALSE)

\* C1 witness: a burst longer than burst + 1 frames whose last frame was
\* dropped, with at least two events reported.
C1_Witness ==
    /\ npkts > burst + 1
    /\ ret = TC_ACT_SHOT
    /\ Len(ReportedCounts) >= 2
    /\ Len(printed) >= 1

\* C3: a frame of a known source arriving T after last_ts_ns is admitted and
\* leaves min(tokens + floor(T x R), B) - 1 tokens whenever that minimum is
\* at least 1.
C3_RefillAdmits ==
    [][ \A pkt \in Packets :
          KnownStep(pkt) =>
              LET st == rate_map[pkt.saddr]
                  T == ktime - st.last_ts_ns
                  expect == Min(st.tokens + (T * rate_limit_pps) \div NSEC_PER_SEC,
                                burst)
              IN  (T >= 0 /\ expect >= 1) =>
                      /\ ret' = TC_ACT_OK
                      /\ rate_map'[pkt.saddr].tokens = expect - 1 ]_vars

\* The line expected for a record: the dotted quad of its source, its count.
ExpectedLine(e) ==
    [ ip |-> << 10, 0, 0, CHOOSE i \in 1..NumIPs : Addr(10, 0, 0, i) = e.src_ip >>,
      dropped |-> e.dropped ]

ExpectedLines(q) == [ i \in 1..Len(q) |-> ExpectedLine(q[i]) ]

\* TRUE when the sequence a is b with some of its elements left out.
RECURSIVE IsSubSeq(_, _)
IsSubSeq(a, b) ==
    IF a = << >> THEN TRUE
    ELSE IF b = << >> THEN FALSE
    ELSE IF Head(a) = Head(b) THEN IsSubSeq(Tail(a), Tail(b))
    ELSE IsSubSeq(a, Tail(b))

\* C10 as stated: the lines printed are lines of records the engine
\* submitted, each at most once, in the order of their submission.
C10_DeliveredInOrder ==
    IsSubSeq(printed, ExpectedLines(submitted))

\* C10 amended: the records are handed over in the order the engine reserved
\* them, none before it is submitted, each at most once and none invented;
\* submissions that do not overlap are handed over in submission order.
C10_DeliveredInReservationOrder ==
    /\ Len(printed) <= Len(reserved)
    /\ \A i \in 1..Len(printed) :
          /\ ~ reserved[i].busy
          /\ printed[i] = ExpectedLine(reserved[i])
    /\ \A l \in { printed[i] : i \in 1..Len(printed) } :
          Cardinality({ i \in 1..Len(printed) : printed[i] = l })
             <= Cardinality({ i \in 1..Len(submitted) :
                                ExpectedLine(submitted[i]) = l })
    /\ (\A c \in CPUs : cpu[c].pc \notin { "fill", "submit" }) =>
          /\ rb = SubSeq(reserved, Len(printed) + 1, Len(reserved))
          /\ (reserved = submitted => IsSubSeq(printed, ExpectedLines(submitted)))

\* C10 witness: two CPUs reserved a record each, the second submitted first,
\* and both records, with different contents, have been handed over.
C10_Witness ==
    /\ Len(printed) >= 2
    /\ printed[1] # printed[2]
    /\ Len(submitted) >= 2
    /\ submitted[1] = reserved[2]
    /\ submitted[2] = reserved[1]

\* C4: a frame of a known source whose timestamp is not after the entry's
\* last_ts_ns (zero or negative elapsed time) gets no refill: lines 146-155
\* are skipped, so tokens and last_ts_ns are left as they are.
C4_NoRefillOnNonPositiveElapsed ==
    [][ \A c \in CPUs :
          ( /\ cpu[c].pc = "elapsed"
            /\ cpu[c].now_ns <= Deref(c).last_ts_ns
            /\ smp_elapsed(c) )
          => /\ cpu'[c].pc = "check"
             /\ cpu'[c].add = 0 ]_vars

\* C4, the part that holds: with zero elapsed time there is no refill.
C4_NoRefillOnZeroElapsed ==
    [][ \A c \in CPUs :
          ( /\ cpu[c].pc = "elapsed"
            /\ cpu[c].now_ns = Deref(c).last_ts_ns
            /\ smp_elapsed(c) )
          => /\ cpu'[c].pc = "check"
             /\ cpu'[c].add = 0 ]_vars

\* C11: once rate_map holds max_entries keys, a frame of a source without
\* entry is admitted, creates no entry, emits no event and changes no entry,
\* whatever the number of frames that source has sent; a frame of a source
\* with an entry is decided on its bucket as before.
C11_ExhaustedStoreAdmits ==
    [][ \A ip \in AllIPs :
          ( /\ Cardinality(Entries(rate_map)) >= MaxEntries
            /\ IngressStep(GoodPacket(ip)) )
          => IF rate_map[ip] = NULL
             THEN /\ ret' = TC_ACT_OK
                  /\ rate_map' = rate_map
                  /\ rb' = rb
                  /\ submitted' = submitted
             ELSE /\ DecisionPost(ip, FALSE)
                  /\ \A other \in AllIPs \ {ip} :
                        rate_map'[other] = rate_map[other] ]_vars

\* C11 witness: the map is full and a source without entry has sent so many
\* frames that, had it had a bucket, some would have been dropped; a source
\* with an entry has had frames dropped.
C11_Witness ==
    /\ Cardinality(Entries(rate_map)) = MaxEntries
    /\ \E ip \in AllIPs :
          /\ rate_map[ip] = NULL
          /\ solo[ip] # NULL
          /\ solo[ip].dropped > 0
    /\ \E ip \in AllIPs : rate_map[ip] # NULL /\ rate_map[ip].dropped > 0

\* C12: a frame whose protocol is not IPv4 is admitted whatever its length
\* and whatever rate_map holds for its source; no entry is created or
\* changed and no event is emitted.
C12_NonIPv4Admitted ==
    [][ \A pkt \in Packets :
          ( /\ pkt.protocol # bpf_htons(ETH_P_IP)
            /\ IngressStep(pkt) )
          => /\ ret' = TC_ACT_OK
             /\ rate_map' = rate_map
             /\ rb' = rb
             /\ submitted' = submitted ]_vars

\* C12 witness: a non-IPv4 frame with both headers in place has been
\* admitted although the bucket of its source address is empty and has seen
\* no time pass.
C12_Witness ==
    /\ frame.protocol # bpf_htons(ETH_P_IP)
    /\ frame.len = ETH_HLEN + IP_HLEN
    /\ ret = TC_ACT_OK
    /\ rate_map[frame.saddr] # NULL
    /\ rate_map[frame.saddr].tokens = 0
    /\ rate_map[frame.saddr].dropped > 0
    /\ rate_map[frame.saddr].last_ts_ns = ktime
    /\ rb # << >>

\* C13: an IPv4 frame whose Ethernet or IPv4 header does not fit before
\* data_end is admitted, and rate_map and the ring buffer are left unchanged.
C13_TruncatedAdmitted ==
    [][ \A pkt \in Packets :
          ( /\ pkt.protocol = bpf_htons(ETH_P_IP)
            /\ pkt.len < ETH_HLEN + IP_HLEN
            /\ IngressStep(pkt) )
          => /\ ret' = TC_ACT_OK
             /\ rate_map' = rate_map
             /\ rb' = rb
             /\ submitted' = submitted ]_vars

\* C13 witness: an IPv4 frame cut inside its IPv4 header has been admitted
\* although the bucket of its source is empty and has seen no time pass.
C13_Witness ==
    /\ frame.protocol = bpf_htons(ETH_P_IP)
    /\ frame.len >= ETH_HLEN
    /\ frame.len < ETH_HLEN + IP_HLEN
    /\ ret = TC_ACT_OK
    /\ rate_map[frame.saddr] # NULL
    /\ rate_map[frame.saddr].tokens = 0
    /\ rate_map[frame.saddr].dropped > 0
    /\ rate_map[frame.saddr].last_ts_ns = ktime

\* C14: for every elapsed time a __u64 holds and every rate, the tokens
\* added are floor(elapsed x rate / NSEC_PER_SEC) computed exactly, and the
\* tokens the refill stores are min(tokens + added, burst); the decision
\* then takes one of them if there is any.
C14_RefillExact ==
    [][ \A pkt \in Packets :
          KnownStep(pkt) =>
              LET st == rate_map[pkt.saddr]
                  elapsed == ktime - st.last_ts_ns
                  added == (elapsed * rate_limit_pps) \div NSEC_PER_SEC
                  stored == Min(st.tokens + added, burst)
              IN  elapsed >= 0 =>
                      /\ TokensToAdd(elapsed, rate_limit_pps) = added
                      /\ Refill(st, ktime, rate_limit_pps, burst).tokens = stored
                      /\ rate_map'[pkt.saddr].tokens =
                            IF stored > 0 THEN stored - 1 ELSE 0 ]_vars

\* C14, the part that holds: while elapsed x rate stays below 2^64 the
\* tokens added are exact and the stored value is min(tokens + added, burst).
C14_RefillExactBelowWrap ==
    [][ \A pkt \in Packets :
          KnownStep(pkt) =>
              LET st == rate_map[pkt.saddr]
                  elapsed == ktime - st.last_ts_ns
                  added == (elapsed * rate_limit_pps) \div NSEC_PER_SEC
                  stored == Min(st.tokens + added, burst)
              IN  (elapsed >= 0 /\ elapsed * rate_limit_pps < U64) =>
                      /\ TokensToAdd(elapsed, rate_limit_pps) = added
                      /\ Refill(st, ktime, rate_limit_pps, burst).tokens = stored
                      /\ rate_map'[pkt.saddr].tokens =
                            IF stored > 0 THEN stored - 1 ELSE 0 ]_vars

\* The process has exited after its poll loop ended on the shutdown flag,
\* nothing having failed: the consumer was created, nothing was logged.
CleanShutdown ==
    /\ pc = "done"
    /\ rb_consumer
    /\ exiting = 1
    /\ stderr = << >>

\* C15: a clean shutdown exits with status 0, whatever the number of
\* records the last ring_buffer__poll consumed and whether the signal came
\* during a poll or between two polls.
C15_CleanShutdownExitsZero ==
    CleanShutdown => exit_status = 0

\* C15, the part that holds: a clean shutdown exits with status 0 when the
\* last poll consumed nothing or was interrupted by the signal.
C15_CleanShutdownAfterIdlePoll ==
    (CleanShutdown /\ err = 0) => exit_status = 0

\* C16: once the process has exited, no attachment it made remains on the
\* ingress path of any interface.
C16_BindingReleased ==
    pc = "done" => \A i \in Interfaces : "this" \notin tc_filters[i]

\* C17 as stated: when bpf_tc_attach reports that the attachment already
\* exists, the attach step succeeds and main goes on to create the consumer.
C17_AttachIdempotent ==
    [][ (pc = "attach" /\ err' = 0 - EEXIST) => pc' = "ringbuf" ]_vars

\* C17 amended: -EEXIST from bpf_tc_attach is fatal like any other attach
\* error: it is logged, main goes to cleanup without creating the consumer
\* or polling, and the process exits with status EEXIST.
C17_AttachExistsIsFatal ==
    /\ [][ (pc = "attach" /\ err' = 0 - EEXIST)
             => /\ pc' = "cleanup"
                /\ stderr' = Append(stderr, "bpf_tc_attach failed")
                /\ tc_filters' = tc_filters ]_vars
    /\ [](err = 0 - EEXIST =>
             /\ pc \in { "cleanup", "done" }
             /\ ~ rb_consumer
             /\ printed = << >>
             /\ \A i \in Interfaces : "this" \notin tc_filters[i]
             /\ pc = "done" => (exit_status = EEXIST /\ skel = "destroyed"))

\* C17 witness: the process has exited with status EEXIST on an interface
\* that carries an earlier attachment.
C17_Witness ==
    /\ pc = "done"
    /\ err = 0 - EEXIST
    /\ exit_status = EEXIST
    /\ tc_filters[env.ifname] = { "previous" }

\* C18 as stated: the poll loop is left only with the shutdown flag set.
C18_LoopLeftOnlyOnSignal ==
    [][ (pc \in { "loop", "poll" } /\ pc' \notin { "loop", "poll" })
          => exiting' = 1 ]_vars

\* C18 amended: the poll loop is left only at its test with the shutdown
\* flag set, or by a poll that was interrupted (-EINTR, err reset to 0), or
\* by a poll that failed (err < 0, logged); never otherwise.
C18_LoopLeftOnSignalOrPollError ==
    [][ (pc \in { "loop", "poll" } /\ pc' \notin { "loop", "poll" })
          => /\ pc' = "cleanup"
             /\ \/ pc = "loop" /\ exiting = 1 /\ err' = err
                \/ pc = "poll" /\ rb = << >> /\ err' = 0
                \/ /\ pc = "poll"
                   /\ err' < 0
                   /\ stderr' = Append(stderr, "Error polling ring buffer") ]_vars

\* C18 witness: the loop has been left by a failed poll, no signal having
\* been received, after records had been printed.
C18_Witness ==
    /\ pc = "cleanup"
    /\ rb_consumer
    /\ exiting = 0
    /\ err < 0
    /\ printed # << >>

\* C19: a poll that fails with an error other than -EINTR is logged, ends
\* the loop without a further poll, cleanup runs, and the exit status is the
\* error number, which is not 0.
C19_PollErrorTerminates ==
    /\ [][ (pc = "poll" /\ err' < 0)
             => /\ pc' = "cleanup"
                /\ stderr' = Append(stderr, "Error polling ring buffer") ]_vars
    /\ [][ pc = "cleanup" => pc' \in { "cleanup", "done" } ]_vars
    /\ []((pc = "done" /\ rb_consumer /\ err < 0) =>
             /\ skel = "destroyed"
             /\ exit_status = 0 - err
             /\ exit_status # 0)

\* C19 witness: the process has exited with status EBADF after a poll
\* failed with -EBADF, records having been printed before.
C19_Witness ==
    /\ pc = "done"
    /\ rb_consumer
    /\ err = 0 - EBADF
    /\ exit_status = EBADF
    /\ stderr = << "Error polling ring buffer" >>
    /\ printed # << >>

\* C20: with an interface name the host does not know, main never creates
\* the consumer nor polls, no attachment is made, and once the skeleton was
\* loaded the process destroys it and exits with a status other than 0.
C20_UnknownInterfaceFails ==
    (env.ifname \notin Interfaces) =>
        /\ pc \notin { "ringbuf", "loop", "poll" }
        /\ ~ rb_consumer
        /\ printed = << >>
        /\ \A i \in Interfaces : "this" \notin tc_filters[i]
        /\ (pc = "done" /\ stderr = << "if_nametoindex failed" >>) =>
              /\ skel = "destroyed"
              /\ exit_status # 0
              /\ exit_status = 1

\* C20 witness: the process has exited after if_nametoindex failed on a
\* loaded skeleton.
C20_Witness ==
    /\ env.ifname \notin Interfaces
    /\ pc = "done"
    /\ stderr = << "if_nametoindex failed" >>
    /\ err = 0 - 1
    /\ exit_status = 1
\* ---------------------------------------------------------------------------
\* C21  Load failure is fatal.  Once rateLimiter_bpf__load has failed, the
\* process never attaches the program, never creates the ring-buffer
\* consumer, never enters the poll loop, and tc_ingress never runs; main goes
\* to cleanup, destroys the skeleton rateLimiter_bpf__open allocated and
\* returns a non-zero status, and it does return.
LoadFailed ==
    \E i \in 1..Len(stderr) : stderr[i] = "Failed to load and verify BPF skeleton"

C21_LoadFailureAborts ==
    LoadFailed =>
        /\ pc \in { "cleanup", "done" }
        /\ \A i \in Interfaces : "this" \notin tc_filters[i]
        /\ ~ rb_consumer
        /\ npkts = 0 /\ rate_map = EmptyMap /\ rb = << >>
        /\ skel \in { "open", "destroyed" }
        /\ pc = "done" => skel = "destroyed" /\ exit_status \in 1..255

C21_LoadFailureIsFatal ==
    /\ [] C21_LoadFailureAborts
    /\ LoadFailed ~> (pc = "done")

C21_Witness ==
    /\ LoadFailed
    /\ pc = "done"
    /\ skel = "destroyed"
    /\ exit_status = EPERM

\* ---------------------------------------------------------------------------
\* C22  Lifecycle ordering.  main moves forward only: setup, open (with the
\* write of the configuration), load, attach, consumer creation, the poll
\* loop, cleanup, return; the only step back is from a poll to the loop
\* test, so open, load and attach are each attempted at most once.
\* rate_limit_pps and burst are written by the step between open and load
\* and by no other one, and every run of tc_ingress reads the values of
\* env that were written there.
Stage(p) ==
    CASE p = "setup"   -> 0
      [] p = "open"    -> 1
      [] p = "load"    -> 2
      [] p = "attach"  -> 3
      [] p = "ringbuf" -> 4
      [] p = "loop"    -> 5
      [] p = "poll"    -> 6
      [] p = "cleanup" -> 7
      [] p = "done"    -> 8
      [] p = "argp"    -> 0 - 1

C22_LifecycleOrder ==
    [][ /\ pc' # pc =>
              \/ Stage(pc') > Stage(pc)
              \/ pc = "poll" /\ pc' = "loop"
        /\ pc \in { "open", "load", "attach" } /\ pc' # pc =>
              Stage(pc') > Stage(pc)
        /\ Stage(pc') > Stage(pc) /\ Stage(pc') <= 5 =>
              Stage(pc') = Stage(pc) + 1
        /\ (rate_limit_pps' # rate_limit_pps \/ burst' # burst) =>
              /\ pc = "open" /\ pc' = "load"
              /\ skel = "none" /\ skel' = "open"
              /\ rate_limit_pps' = env.rate /\ burst' = env.burst
        /\ env' = env
        /\ skel' # skel /\ skel' = "loaded" => pc = "load" /\ pc' = "attach"
        /\ npkts' # npkts =>
              /\ Stage(pc) >= 4
              /\ rate_limit_pps = env.rate /\ burst = env.burst
              /\ rate_limit_pps' = rate_limit_pps /\ burst' = burst
      ]_vars

C22_Witness ==
    /\ pc = "done"
    /\ skel = "destroyed"
    /\ exiting = 1
    /\ npkts > 1
    /\ printed # << >>
    /\ rate_limit_pps = env.rate /\ burst = env.burst

\* ---------------------------------------------------------------------------
\* C23  Shutdown is eventually honoured.  Once handle_signal has set exiting
\* while main is in the poll loop, the next loop test leaves the loop (at
\* most the poll in progress completes first), cleanup destroys the
\* skeleton and main returns.  Setting the flag touches nothing of the
\* kernel side: a run of tc_ingress is not cut short by it.
Running == pc \in { "loop", "poll" }

C23_ShutdownHonoured ==
    /\ [][ /\ exiting = 1 /\ pc = "loop" /\ pc' # pc => pc' = "cleanup"
           /\ exiting = 1 /\ pc = "poll" /\ pc' # pc =>
                 pc' \in { "loop", "cleanup" }
           /\ exiting = 1 => exiting' = 1
           /\ exiting' # exiting => kvars' = kvars
         ]_vars
    /\ (exiting = 1 /\ Running) ~> (pc = "done" /\ skel = "destroyed")

C23_Witness ==
    /\ pc = "done"
    /\ exiting = 1
    /\ rb_consumer
    /\ skel = "destroyed"
    /\ err = 0
    /\ exit_status = 0

\* ---------------------------------------------------------------------------
\* C24  Only valid configurations reach the load stage.  Whatever is given
\* to --rate, --burst and --iface, a process that has got past argp_parse
\* holds 0 < env.rate <= INT_MAX, 0 < env.burst <= INT_MAX and an interface
\* name shorter than IFNAMSIZ; every other command line ends in the usage
\* exit before the skeleton is opened.
ValidConfig ==
    /\ env.rate \in 1..INT_MAX
    /\ env.burst \in 1..INT_MAX
    /\ Len(env.ifname) < IFNAMSIZ

C24_OnlyValidConfigsReachLoad ==
    (Stage(pc) \in 0..7 \/ skel # "none") => ValidConfig

\* ---------------------------------------------------------------------------
\* C25  State store growth.  Over any sequence of runs of tc_ingress the set
\* of keys of rate_map only grows: no run removes a key or puts another key
\* in its place; and the map never holds more than max_entries keys.
C25_StoreOnlyGrows ==
    /\ [] (Cardinality(Entries(rate_map)) <= MaxEntries)
    /\ [][ /\ Entries(rate_map) \subseteq Entries(rate_map')
           /\ Cardinality(Entries(rate_map')) <= MaxEntries
           /\ Cardinality(Entries(rate_map')) <= Cardinality(Entries(rate_map)) + 1
         ]_vars

\* C25 witness: more sources have sent frames than the map can hold, and the
\* map is full.
C25_Witness ==
    /\ Cardinality(Entries(rate_map)) = MaxEntries
    /\ Cardinality({ ip \in AllIPs : solo[ip] # NULL }) > MaxEntries
    /\ \A ip \in Entries(rate_map) : solo[ip] # NULL

\* ---------------------------------------------------------------------------
\* C26  Every run of tc_ingress ends with a verdict.  Whatever the frame,
\* the occupancy of rate_map and the occupancy of the ring buffer, and
\* whatever the other CPUs do: a CPU inside tc_ingress can always execute its
\* next statement (nothing waits), every statement moves it to a later line
\* or out of the program (no loop, at most one pass over the lines), it
\* leaves with TC_ACT_OK or TC_ACT_SHOT, and it does leave.
Line(p) ==
    CASE p = "idle"      -> 0
      [] p = "lookup"    -> 1
      [] p = "insert"    -> 2
      [] p = "elapsed"   -> 3
      [] p = "refill"    -> 4
      [] p = "wr_tokens" -> 5
      [] p = "wr_ts"     -> 6
      [] p = "check"     -> 7
      [] p = "dec"       -> 8
      [] p = "dec_st"    -> 9
      [] p = "inc"       -> 10
      [] p = "inc_st"    -> 11
      [] p = "reserve"   -> 12
      [] p = "fill"      -> 13
      [] p = "submit"    -> 14

C26_NeverBlocked ==
    \A c \in CPUs : cpu[c].pc # "idle" => ENABLED smp_step(c)

C26_TerminatesWithVerdict ==
    /\ [] C26_NeverBlocked
    /\ [][ /\ \A c \in CPUs :
                 /\ cpu[c].pc # "idle" /\ cpu'[c].pc # cpu[c].pc =>
                       \/ Line(cpu'[c].pc) > Line(cpu[c].pc)
                       \/ cpu'[c].pc = "idle"
                 /\ cpu[c].pc # "idle" /\ cpu'[c].pc = "idle" =>
                       ret' \in { TC_ACT_OK, TC_ACT_SHOT }
           /\ npkts' # npkts =>
                 \/ \E c \in CPUs : cpu[c].pc = "idle" /\ cpu'[c].pc = "lookup"
                 \/ cpu' = cpu /\ ret' = TC_ACT_OK
         ]_vars
    /\ \A c \in CPUs : (cpu[c].pc # "idle") ~> (cpu[c].pc = "idle")

\* C26 witness: a frame has been dropped unreported on a full ring buffer,
\* and every CPU has left the program.
C26_Witness ==
    /\ \A c \in CPUs : cpu[c].pc = "idle"
    /\ Len(rb) = RbRecords
    /\ ret = TC_ACT_SHOT
    /\ rate_map[FirstIP] # NULL
    /\ rate_map[FirstIP].dropped > Len(reserved)

\* ---------------------------------------------------------------------------
\* C27  Layout of the record in the ring buffer, as stated: every record
\* tc_ingress writes occupies 16 bytes, src_ip at offset 0, ts_ns at offset
\* 4 and dropped at offset 12, without padding, and handle_event reads from
\* those bytes the values tc_ingress stored.
RecordsAgree ==
    /\ sizeof(struct_event_user) = sizeof(struct_event_bpf)
    /\ \A n \in 1..Len(reserved) :
          ~ reserved[n].busy =>
             LET seen == ReadEvent(RecordBytes(reserved[n])) IN
             \A i \in DOMAIN struct_event_user :
                seen[i] = reserved[n][struct_event_user[i].name]

C27_Record16BytesNoPadding ==
    reserved # << >> =>
        /\ sizeof(struct_event_bpf) = 16
        /\ << offsetof(struct_event_bpf, 1), offsetof(struct_event_bpf, 2),
              offsetof(struct_event_bpf, 3) >> = << 0, 4, 12 >>
        /\ \A n \in 1..Len(reserved) :
              \A o \in DOMAIN RecordBytes(reserved[n]) :
                 RecordBytes(reserved[n])[o] # Pad
        /\ RecordsAgree

\* C27 as the code has it: every record occupies 24 bytes, src_ip at offset
\* 0, ts_ns at offset 8 and dropped at offset 16, bytes 4-7 and 20-23 being
\* padding; the producer's and the consumer's struct have the same layout,
\* and handle_event reads the values tc_ingress stored.
C27_Record24BytesPadded ==
    reserved # << >> =>
        /\ sizeof(struct_event_bpf) = 24
        /\ << offsetof(struct_event_bpf, 1), offsetof(struct_event_bpf, 2),
              offsetof(struct_event_bpf, 3) >> = << 0, 8, 16 >>
        /\ \A n \in 1..Len(reserved) :
              { o \in DOMAIN RecordBytes(reserved[n]) :
                   RecordBytes(reserved[n])[o] = Pad } = (4..7) \cup (20..23)
        /\ RecordsAgree

\* C27 witness: a record with a count above one and a later timestamp has
\* been submitted and read.
C27_Witness ==
    /\ printed # << >>
    /\ \E n \in 1..Len(reserved) :
          /\ ~ reserved[n].busy
          /\ reserved[n].dropped > 1
          /\ reserved[n].ts_ns > 0

\* ---------------------------------------------------------------------------
\* C28  Tokens under concurrent invocations for one source.  With two CPUs
\* inside tc_ingress at once, interleaved at each read and write of
\* st->tokens and st->last_ts_ns, the tokens of the entry in rate_map stay
\* within 0..burst in every reachable state: racing decrements never wrap
\* below zero.
C28_TokensWithinBurstSMP ==
    rate_map[FirstIP] # NULL => rate_map[FirstIP].tokens \in 0..burst

\* ---------------------------------------------------------------------------
\* C29  The entry of a source under concurrent invocations.  With two CPUs
\* inside tc_ingress at once (both may miss the lookup of a first-seen
\* source and both insert; the reads and writes of st->dropped interleave),
\* the dropped count stored for the source never decreases, but for the
\* wrap of the 32-bit counter, and the insert of a CPU never overwrites an
\* entry that exists.
C29_EntryNeverReset ==
    [][ rate_map[FirstIP] # NULL =>
          /\ rate_map'[FirstIP] # NULL
          /\ \/ rate_map'[FirstIP].dropped >= rate_map[FirstIP].dropped
             \/ /\ rate_map[FirstIP].dropped = U32 - 1
                /\ rate_map'[FirstIP].dropped = 0
          /\ (\E c \in CPUs : cpu[c].pc = "insert" /\ cpu'[c].pc = "idle") =>
                rate_map'[FirstIP] = rate_map[FirstIP]
      ]_vars

\* ---------------------------------------------------------------------------
\* C30  The refill step on an existing entry with elapsed > 0.  With added =
\* floor(elapsed x rate / NSEC_PER_SEC): if added > 0 the refill stores
\* tokens = min(tokens + added, burst) and last_ts_ns = now; if added = 0
\* it leaves tokens and last_ts_ns as they are, so a frame that earns no
\* token does not advance the timestamp.  The decision that follows takes
\* one token if there is any and never writes last_ts_ns.
RefillStepPost(exact) ==
    \A pkt \in Packets :
       KnownStep(pkt) =>
          LET st == rate_map[pkt.saddr]
              elapsed == ktime - st.last_ts_ns
              added == (elapsed * rate_limit_pps) \div NSEC_PER_SEC
              refilled == IF added > 0
                          THEN [ st EXCEPT !.tokens = Min(st.tokens + added, burst),
                                           !.last_ts_ns = ktime ]
                          ELSE st
          IN  (elapsed > 0 /\ (exact \/ elapsed * rate_limit_pps < U64)) =>
                 /\ Refill(st, ktime, rate_limit_pps, burst) = refilled
                 /\ rate_map'[pkt.saddr].last_ts_ns = refilled.last_ts_ns
                 /\ rate_map'[pkt.saddr].tokens =
                       IF refilled.tokens > 0 THEN refilled.tokens - 1 ELSE 0

C30_RefillStep == [][ RefillStepPost(TRUE) ]_vars

\* C30, the part that holds: while elapsed x rate stays below 2^64.
C30_RefillStepBelowWrap == [][ RefillStepPost(FALSE) ]_vars

\* ---------------------------------------------------------------------------
\* C31  Rate bound, as stated.  For one source whose frames are processed
\* one at a time with a clock that never goes back, the frames admitted in
\* any window of T seconds number at most burst + floor(T x rate_limit_pps):
\* for any two admitted frames, the admitted frames from the first to the
\* second number at most burst + floor((ts2 - ts1) x rate / NSEC_PER_SEC).
Admits == SelectSeq(verdicts, LAMBDA v : v.src = FirstIP /\ v.ret = TC_ACT_OK)

AdmittedWithin(i, j) == j - i + 1

WindowAllowance(i, j) ==
    burst + ((Admits[j].ts - Admits[i].ts) * rate_limit_pps) \div NSEC_PER_SEC

WindowBound ==
    \A i, j \in 1..Len(Admits) :
       i <= j => AdmittedWithin(i, j) <= WindowAllowance(i, j)

C31_RateBound == WindowBound

\* C31 for a source that rate_map holds an entry for: the bound holds from
\* the frame that created the entry on.  A source that a full map has no
\* room for is admitted without limit.
C31_RateBoundWithEntry == rate_map[FirstIP] # NULL => WindowBound

\* C31 witness: the source has an entry, frames of it were dropped, and a
\* window that spans a refill is filled to its allowance.
C31_Witness ==
    /\ rate_map[FirstIP] # NULL
    /\ \E n \in 1..Len(verdicts) : verdicts[n].ret = TC_ACT_SHOT
    /\ \E i, j \in 1..Len(Admits) :
          /\ i < j
          /\ Admits[j].ts > Admits[i].ts
          /\ AdmittedWithin(i, j) = WindowAllowance(i, j)
          /\ AdmittedWithin(i, j) > burst

\* ---------------------------------------------------------------------------
\* C32  Drop accounting.  For every source that has an entry, after any
\* sequence of invocations run one at a time: the dropped count of the
\* entry is the number of TC_ACT_SHOT verdicts returned for the source since
\* the entry was created, as long as there were fewer than 2^32 of them;
\* every invocation returned exactly one verdict, TC_ACT_OK or TC_ACT_SHOT,
\* so the admitted and the dropped frames add up to the frames processed.
VerdictsOf(ip, r) == SelectSeq(verdicts, LAMBDA v : v.src = ip /\ v.ret = r)

C32_DropAccounting ==
    /\ Len(verdicts) = npkts
    /\ verdicts # << >> => ret = verdicts[Len(verdicts)].ret
    /\ \A ip \in AllIPs :
          rate_map[ip] # NULL =>
             LET shot == Len(VerdictsOf(ip, TC_ACT_SHOT))
                 ok   == Len(VerdictsOf(ip, TC_ACT_OK))
                 all  == Len(SelectSeq(verdicts, LAMBDA v : v.src = ip))
             IN  /\ shot < U32 => rate_map[ip].dropped = shot
                 /\ ok + shot = all

\* C32 witness: the source was admitted, dropped twice or more, admitted
\* again after a refill and dropped again.
C32_Witness ==
    /\ rate_map[FirstIP] # NULL
    /\ rate_map[FirstIP].dropped >= 2
    /\ rate_map[FirstIP].dropped = Len(VerdictsOf(FirstIP, TC_ACT_SHOT))
    /\ Len(VerdictsOf(FirstIP, TC_ACT_OK)) >= 2
    /\ ret = TC_ACT_SHOT
    /\ \E n \in 2..Len(verdicts) :
          verdicts[n].ret = TC_ACT_OK /\ verdicts[n - 1].ret = TC_ACT_SHOT

\* ---------------------------------------------------------------------------
\* C33  No starvation of a flooding source.  For a source with an entry
\* that keeps sending, at least one frame per clock unit: a frame that is
\* dropped found the bucket empty less than one token's time
\* (NSEC_PER_SEC / rate_limit_pps) after last_ts_ns, and leaves last_ts_ns
\* as it is; a frame that arrives one token's time or more after last_ts_ns
\* is admitted; and a source whose frame was dropped has a later frame that
\* refills the bucket and is admitted, as long as the clock can still advance
\* to one token's time after the last refill.
TokenTime == (NSEC_PER_SEC + rate_limit_pps - 1) \div rate_limit_pps

\* The last frame of the source was dropped, and the clock can still advance
\* to one token's time after the last refill.
Starved ==
    IF rate_map[FirstIP] = NULL
    THEN FALSE
    ELSE /\ ret = TC_ACT_SHOT
         /\ rate_map[FirstIP].tokens = 0
         /\ rate_map[FirstIP].last_ts_ns + TokenTime <= U64 - 1

\* The last frame of the source refilled the bucket and was admitted.
Readmitted ==
    IF rate_map[FirstIP] = NULL
    THEN FALSE
    ELSE /\ ret = TC_ACT_OK
         /\ rate_map[FirstIP].last_ts_ns = ktime

C33_NoStarvation ==
    /\ [][ rate_map[FirstIP] # NULL /\ NextFlood =>
             LET st == rate_map[FirstIP] IN
             /\ ret' = TC_ACT_SHOT =>
                   /\ rate_map'[FirstIP].last_ts_ns = st.last_ts_ns
                   /\ st.tokens = 0
                   /\ ktime' - st.last_ts_ns < TokenTime
             /\ ktime' - st.last_ts_ns >= TokenTime => ret' = TC_ACT_OK
         ]_vars
    /\ Starved ~> Readmitted

\* C33 witness: frames of the source were dropped while its bucket was
\* empty, and a later frame has refilled the bucket and was admitted.
C33_Witness ==
    /\ rate_map[FirstIP] # NULL
    /\ rate_map[FirstIP].dropped >= 2
    /\ rate_map[FirstIP].last_ts_ns = ktime
    /\ ktime >= TokenTime
    /\ ret = TC_ACT_OK
    /\ rb # << >>

====
